---- MODULE Spec2Model ----
(***************************************************************************)
(* Verification model of the risos feed reader back end:                   *)
(*   - scheduler leader election over the single-row scheduler_lock table  *)
(*     (app/services/scheduler.py)                                         *)
(*   - summary queue worker (app/services/scheduler.py)                    *)
(*   - feed ingestion with per-feed deduplication                          *)
(*     (app/services/feed_ingestion.py, app/models.py)                     *)
(*   - LLM client circuit breaker (app/services/cerebras.py)               *)
(* Each subsystem has its own specification over the shared variables.     *)
(* Database statements are the atomic steps: SQLite serialises writers,    *)
(* and a SELECT issued through the default driver holds no transaction     *)
(* open, so another process may commit between two statements of a         *)
(* handler.                                                                *)
(***************************************************************************)
EXTENDS Integers, Sequences, FiniteSets, TLC

(***************************************************************************)
(* Bounds of the model                                                     *)
(***************************************************************************)
MaxTime == 180
TickStep == 30
MaxCbTime == 600
CbTickStep == 60
\* settings.cerebras_max_rpm and the number of configured API keys of the run
cerebras_max_rpm == 1
NumKeys == 1
\* configured API keys and calls of get_next_key in the key rotation runs
RotKeys == 3
MaxBurst == 7
\* feed entries processed plus fetches failed, over all ingestions
MaxEntries == 3
\* clock of the summary queue worker
MaxQTime == 600
QTickStep == 300
\* calls of generate_summary made by the workers
MaxCalls == 2
\* backfill sweeps, reprocess and regenerate requests
MaxOps == 2
\* entries of a feed document, and ingestions of one document in a row
MaxDocLen == 3
MaxRuns == 3
MaxDays == 500
DayStep == 100
NumSugPosts == 2
NumFeeds == 21
MaxErrorCount == 2
MaxGateTime == 360
GateTickStep == 60

(***************************************************************************)
(* Program constants                                                       *)
(***************************************************************************)
HEARTBEAT_INTERVAL == 30
LOCK_TIMEOUT == 60
failure_threshold == 5
recovery_timeout_seconds == 300
half_open_max_requests == 3
KEY_COOLDOWN_SECONDS == 60
summary_lock_timeout_seconds == 300
MAX_ATTEMPTS == 5
COOLDOWN_SECONDS == 86400
max_post_age_days == 365
max_unread_days == 90
FULL_CONTENT_DAYS == 30
FEEDS_PER_PASS == 20
MIN_TAG_OVERLAP == 3
MAX_CANDIDATES_PER_BATCH == 50
CANDIDATE_WINDOW_HOURS == 24
SUGGESTION_MIN_SCORE == 80
BACKFILL_LIMIT == 50

\* Scheduler.instance_id of the processes sharing the database file
Instances == {"i1", "i2"}

Jobs == {"update_feeds", "cleanup_retention", "health_check",
         "process_summaries", "update_user_profile", "process_suggestions"}

Min(a, b) == IF a <= b THEN a ELSE b

VARIABLES
    now,          \* wall clock, datetime.utcnow(), in seconds
    lock,         \* the scheduler_lock row (id = 1) or its absence
    is_leader,    \* Scheduler.is_leader, per instance
    running,      \* Scheduler._running, per instance
    tasks,        \* Scheduler._tasks, per instance: the live job tasks
    executing,    \* per instance: the job whose loop body is being run, or "none"
    ipc,          \* per instance: position of start()/_heartbeat_loop
    acq,          \* per instance: locals of a _try_acquire_lock in progress
    wake,         \* per instance: end of the current asyncio.sleep of the loop
    lostLock,     \* history: instances whose heartbeat UPDATE matched no row
    killedAt      \* history: time of the kill, -1 before it

leaderVars == <<lock, is_leader, running, tasks, executing, ipc, acq, wake,
                lostLock, killedAt>>

VARIABLES
    cb,           \* the CircuitBreaker object of the process
    cbSaved,      \* its copy in app_settings, written by _save_state
    rot,          \* the ApiKeyRotator object: _current_index, _key_cooldowns
    cpc,          \* per caller of generate_summary: "idle" or "inflight"
    ckey,         \* per caller: index of the API key of its request in flight
    result,       \* how the latest generate_summary step of any caller ended
    consec,       \* history: failures recorded since the last success (capped)
    halfSucc,     \* history: successes recorded since HALF was entered
    sent          \* history: time of the latest POST to the upstream API,
                  \* forgotten once the minimum interval has passed

cbVars == <<cb, cbSaved, rot, cpc, ckey, result, consec, halfSucc, sent>>

VARIABLES
    posts,         \* committed rows of the posts table of one feed; id = position
    feed,          \* the committed feeds row of that feed
    wlock,         \* the connection holding SQLite's write lock, or NoHolder
    ing,           \* per ingest_feed call in progress: its session and locals
    processed,     \* entries processed and fetches failed so far (bounded)
    rejected       \* history: what INSERTs a unique index has refused

ingestVars == <<posts, feed, wlock, ing, processed, rejected>>

VARIABLES
    summary_queue,    \* committed rows of the summary_queue table
    ai_summaries,     \* content hashes of the rows of ai_summaries
    summary_failures, \* content hashes of the rows of summary_failures
    wk,               \* per worker: position in the loop body and its locals
    calls,            \* generate_summary calls made so far (bounded by MaxCalls)
    res,              \* history: row count of the worker's latest claim UPDATE
    race              \* history: the latest selection met a rival's selection
                      \* of the same row that had not yet run its UPDATE

queueVars == <<ai_summaries, summary_failures, wk, calls, res, race>>

VARIABLES
    regen,            \* id of the post whose regenerate_summary awaits the LLM
    ops               \* requeueing operations so far (bounded by MaxOps)

routeVars == <<regen, ops>>

VARIABLES
    used,             \* history: per key index, the times get_next_key handed
                      \* it out in the current burst
    doc,              \* the entries of the parsed feed document that is ingested
    runs,             \* ingest_feed calls made on doc so far
    report,           \* the FeedIngestionResult the latest of them returned
    post_rows,        \* the posts table with the columns retention reads
    cleanup_logs      \* the latest row of cleanup_logs

retentionVars == <<post_rows, cleanup_logs>>

VARIABLES
    feeds,            \* the feeds table with the columns update_feeds reads
    picked,           \* history: ids of the feeds an update_feeds pass has taken
    pass_no,          \* history: update_feeds passes so far, modulo 2
    sug_posts,        \* the posts table with the columns the suggestion engine
                      \* reads and writes
    batch             \* ids of the candidates whose comparison awaits the LLM,
                      \* NoBatch when no comparison is in flight

jobVars == <<feeds, picked, pass_no, sug_posts, batch>>

auxVars == <<used, doc, runs, report, retentionVars, jobVars>>

vars == <<now, leaderVars, cbVars, ingestVars, summary_queue, queueVars, routeVars,
          auxVars>>

nonLeaderVars == <<cbVars, ingestVars, summary_queue, queueVars, routeVars, auxVars>>

nonCbVars == <<leaderVars, ingestVars, summary_queue, queueVars, routeVars, auxVars>>

(***************************************************************************)
(* SchedulerLock row                                                       *)
(***************************************************************************)
NoRow == [exists |-> FALSE, locked_by |-> "", locked_at |-> 0, heartbeat_at |-> 0]

LockRow(i, t) == [exists |-> TRUE, locked_by |-> i, locked_at |-> t, heartbeat_at |-> t]

NoAcq == [now |-> 0, seen |-> NoRow]

\* a row left behind by a process of an earlier run that was killed long ago
LeftoverRow == LockRow("i0", 0 - LOCK_TIMEOUT - TickStep)

\* existing.heartbeat_at < now - LOCK_TIMEOUT
LockExpired(row, t) == row.heartbeat_at < t - LOCK_TIMEOUT

\* Outcome of the decision part of _try_acquire_lock for instance i that read
\* row `seen` at time t, applied to the row `cur` now in the table.
\* Result: the row afterwards and the value of self.is_leader.
AcquireOutcome(i, t, seen, cur, wasLeader) ==
    IF seen.exists
    THEN IF LockExpired(seen, t)
         THEN IF cur.exists
              THEN [lock |-> LockRow(i, t), leader |-> TRUE]
              ELSE [lock |-> cur, leader |-> wasLeader]   \* UPDATE matched no row: raises
         ELSE IF seen.locked_by = i
              THEN [lock |-> cur, leader |-> TRUE]
              ELSE [lock |-> cur, leader |-> FALSE]
    ELSE IF cur.exists
         THEN [lock |-> cur, leader |-> wasLeader]        \* INSERT id=1 twice: raises
         ELSE [lock |-> LockRow(i, t), leader |-> TRUE]

\* rows matched by UPDATE scheduler_lock SET heartbeat_at WHERE id=1 AND locked_by=i
HeartbeatRows(row, i) == IF row.exists /\ row.locked_by = i THEN 1 ELSE 0

\* variant: becoming leader starts no job
StartJobs_none(ts) == ts

\* self._tasks after _start_jobs
StartJobs(ts) == ts \cup Jobs

TasksAfterLost_kept(ts) == ts

\* self._tasks after the lock was lost
TasksAfterLost(ts) == {}

\* end of the asyncio.sleep(HEARTBEAT_INTERVAL) that starts at time t
SleepUntil(t) == Min(t + HEARTBEAT_INTERVAL, MaxTime)

(***************************************************************************)
(* Scheduler: initial state and steps                                      *)
(***************************************************************************)
LeaderParked ==
    /\ lock = NoRow
    /\ is_leader = [i \in Instances |-> FALSE]
    /\ running = [i \in Instances |-> FALSE]
    /\ tasks = [i \in Instances |-> {}]
    /\ executing = [i \in Instances |-> "none"]
    /\ ipc = [i \in Instances |-> "new"]
    /\ acq = [i \in Instances |-> NoAcq]
    /\ wake = [i \in Instances |-> 0]
    /\ lostLock = {}
    /\ killedAt = -1

Tick ==
    /\ now < MaxTime
    /\ now' = Min(now + TickStep, MaxTime)
    /\ UNCHANGED leaderVars
    /\ UNCHANGED nonLeaderVars

\* start(): set _running, then the SELECT of _try_acquire_lock
Start(i) ==
    /\ ipc[i] = "new"
    /\ running' = [running EXCEPT ![i] = TRUE]
    /\ acq' = [acq EXCEPT ![i] = [now |-> now, seen |-> lock]]
    /\ ipc' = [ipc EXCEPT ![i] = "acquiring"]
    /\ UNCHANGED <<now, lock, is_leader, tasks, executing, wake, lostLock, killedAt>>
    /\ UNCHANGED nonLeaderVars

\* _heartbeat_loop, follower branch: the SELECT of _try_acquire_lock
TryAcquireRead(i) ==
    /\ ipc[i] = "sleeping"
    /\ running[i]
    /\ now >= wake[i]
    /\ ~is_leader[i]
    /\ acq' = [acq EXCEPT ![i] = [now |-> now, seen |-> lock]]
    /\ ipc' = [ipc EXCEPT ![i] = "acquiring"]
    /\ UNCHANGED <<now, lock, is_leader, running, tasks, executing, wake, lostLock, killedAt>>
    /\ UNCHANGED nonLeaderVars

\* the rest of _try_acquire_lock, then _start_jobs if leader, then sleep
TryAcquireWrite(i) ==
    /\ ipc[i] = "acquiring"
    /\ LET out == AcquireOutcome(i, acq[i].now, acq[i].seen, lock, is_leader[i])
       IN /\ lock' = out.lock
          /\ is_leader' = [is_leader EXCEPT ![i] = out.leader]
          /\ tasks' = [tasks EXCEPT ![i] = IF out.leader /\ running[i]
                                           THEN StartJobs(@) ELSE @]
    /\ acq' = [acq EXCEPT ![i] = NoAcq]
    /\ ipc' = [ipc EXCEPT ![i] = IF running[i] THEN "sleeping" ELSE "stopped"]
    /\ wake' = [wake EXCEPT ![i] = SleepUntil(now)]
    /\ UNCHANGED <<now, running, executing, lostLock, killedAt>>
    /\ UNCHANGED nonLeaderVars

\* _heartbeat_loop, leader branch: _update_heartbeat
UpdateHeartbeat(i) ==
    /\ ipc[i] = "sleeping"
    /\ running[i]
    /\ now >= wake[i]
    /\ is_leader[i]
    /\ IF HeartbeatRows(lock, i) = 0
       THEN /\ is_leader' = [is_leader EXCEPT ![i] = FALSE]
            /\ tasks' = [tasks EXCEPT ![i] = TasksAfterLost(@)]
            /\ executing' = [executing EXCEPT ![i] = "none"]
            /\ lock' = lock
       ELSE /\ lock' = [lock EXCEPT !.heartbeat_at = now]
            /\ UNCHANGED <<is_leader, tasks, executing>>
    /\ lostLock' = IF HeartbeatRows(lock, i) = 0 THEN lostLock \cup {i} ELSE lostLock
    /\ wake' = [wake EXCEPT ![i] = SleepUntil(now)]
    /\ UNCHANGED <<now, running, ipc, acq, killedAt>>
    /\ UNCHANGED nonLeaderVars

\* a job loop passes its `while self._running and self.is_leader` test
JobBegin(i, j) ==
    /\ ipc[i] = "sleeping"
    /\ j \in tasks[i]
    /\ executing[i] = "none"
    /\ running[i] /\ is_leader[i]
    /\ executing' = [executing EXCEPT ![i] = j]
    /\ UNCHANGED <<now, lock, is_leader, running, tasks, ipc, acq, wake, lostLock, killedAt>>
    /\ UNCHANGED nonLeaderVars

\* the job's iteration ends and it sleeps until its next cycle
JobEnd(i) ==
    /\ executing[i] # "none"
    /\ executing' = [executing EXCEPT ![i] = "none"]
    /\ UNCHANGED <<now, lock, is_leader, running, tasks, ipc, acq, wake, lostLock, killedAt>>
    /\ UNCHANGED nonLeaderVars

\* stop(): clear _running, cancel the tasks, release the lock if leader
\* variant: the DELETE of _release_lock filters on the id alone
ReleaseLock_anyHolder(l, i) == NoRow

\* the lock row after _release_lock of instance i: the DELETE matches the
\* row only if it names i as holder
ReleaseLock(l, i) == IF HeartbeatRows(l, i) = 1 THEN NoRow ELSE l

Stop(i) ==
    /\ ipc[i] = "sleeping"
    /\ running[i]
    /\ running' = [running EXCEPT ![i] = FALSE]
    /\ executing' = [executing EXCEPT ![i] = "none"]
    /\ lock' = IF is_leader[i] THEN ReleaseLock(lock, i) ELSE lock
    /\ ipc' = [ipc EXCEPT ![i] = "stopped"]
    /\ UNCHANGED <<now, is_leader, tasks, acq, wake, lostLock, killedAt>>
    /\ UNCHANGED nonLeaderVars

\* the process is killed: it takes no further step and releases nothing
Kill(i) ==
    /\ ipc[i] \in {"sleeping", "acquiring"}
    /\ killedAt = -1
    /\ now + LOCK_TIMEOUT + TickStep <= MaxTime
    /\ ipc' = [ipc EXCEPT ![i] = "dead"]
    /\ executing' = [executing EXCEPT ![i] = "none"]
    /\ killedAt' = now
    /\ UNCHANGED <<now, lock, is_leader, running, tasks, acq, wake, lostLock>>
    /\ UNCHANGED nonLeaderVars

LoopStep(i) ==
    \/ Start(i)
    \/ TryAcquireRead(i)
    \/ TryAcquireWrite(i)
    \/ UpdateHeartbeat(i)

LeaderNext ==
    \/ Tick
    \/ \E i \in Instances : Start(i)
    \/ \E i \in Instances : TryAcquireRead(i)
    \/ \E i \in Instances : TryAcquireWrite(i)
    \/ \E i \in Instances : UpdateHeartbeat(i)
    \/ \E i \in Instances, j \in Jobs : JobBegin(i, j)
    \/ \E i \in Instances : JobEnd(i)
    \/ \E i \in Instances : Stop(i)
    \/ \E i \in Instances : Kill(i)


(***************************************************************************)
(* LLM client: circuit breaker and API key rotator (cerebras.py)           *)
(***************************************************************************)
\* datetime fields that are None
NoTime == 0 - 1

ClosedBreaker == [state |-> "closed", failures |-> 0, half_successes |-> 0,
                  last_failure |-> NoTime, last_call |-> NoTime]

\* no cerebras_* row in app_settings
NotSaved == [state |-> "absent", failures |-> 0, half_successes |-> 0,
             last_failure |-> NoTime, last_call |-> NoTime]

KeyIndexes == 0..(NumKeys - 1)

Callers == {"worker", "route"}

Responses == {"200", "200invalid", "429", "500", "400", "timeout", "connerr"}

FailureResponses == {"200invalid", "500", "400", "timeout", "connerr"}

\* elapsed < 60.0 / settings.cerebras_max_rpm
UnderMinInterval(b, t) ==
    b.last_call # NoTime /\ (t - b.last_call) * cerebras_max_rpm < 60

RecoveryElapsed_strict(b, t) == t - b.last_failure > recovery_timeout_seconds

\* elapsed >= settings.recovery_timeout_seconds
RecoveryElapsed(b, t) == t - b.last_failure >= recovery_timeout_seconds

\* CircuitBreaker.can_call: [ok, cb]
CanCall(b, t) ==
    IF UnderMinInterval(b, t)
    THEN [ok |-> FALSE, cb |-> b]
    ELSE IF b.state = "open" /\ b.last_failure # NoTime
         THEN IF RecoveryElapsed(b, t)
              THEN [ok |-> TRUE, cb |-> [b EXCEPT !.state = "half", !.half_successes = 0]]
              ELSE [ok |-> FALSE, cb |-> b]
         ELSE [ok |-> TRUE, cb |-> b]

\* variant: a success closes the circuit whatever its state
RecordSuccess_closes(b, t) ==
    IF b.state = "half" /\ b.half_successes + 1 < half_open_max_requests
    THEN [b EXCEPT !.last_call = t, !.half_successes = @ + 1]
    ELSE [b EXCEPT !.last_call = t, !.state = "closed", !.failures = 0]

RecordSuccess_late(b, t) ==
    IF b.state = "half"
    THEN IF b.half_successes + 1 > half_open_max_requests
         THEN [b EXCEPT !.last_call = t, !.state = "closed", !.failures = 0,
                        !.half_successes = @ + 1]
         ELSE [b EXCEPT !.last_call = t, !.half_successes = @ + 1]
    ELSE [b EXCEPT !.last_call = t, !.failures = 0]

\* CircuitBreaker.record_success
RecordSuccess(b, t) ==
    IF b.state = "half"
    THEN IF b.half_successes + 1 >= half_open_max_requests
         THEN [b EXCEPT !.last_call = t, !.state = "closed", !.failures = 0,
                        !.half_successes = @ + 1]
         ELSE [b EXCEPT !.last_call = t, !.half_successes = @ + 1]
    ELSE [b EXCEPT !.last_call = t, !.failures = 0]

RecordFailure_late(b, t) ==
    IF b.state = "half"
    THEN [b EXCEPT !.last_call = t, !.last_failure = t, !.state = "open"]
    ELSE IF b.failures + 1 > failure_threshold
         THEN [b EXCEPT !.last_call = t, !.last_failure = t, !.failures = @ + 1,
                        !.state = "open"]
         ELSE [b EXCEPT !.last_call = t, !.last_failure = t, !.failures = @ + 1]

RecordFailure_noHalf(b, t) ==
    IF b.failures + 1 >= failure_threshold
    THEN [b EXCEPT !.last_call = t, !.last_failure = t, !.failures = @ + 1,
                   !.state = "open"]
    ELSE [b EXCEPT !.last_call = t, !.last_failure = t, !.failures = @ + 1]

\* CircuitBreaker.record_failure
RecordFailure(b, t) ==
    IF b.state = "half"
    THEN [b EXCEPT !.last_call = t, !.last_failure = t, !.state = "open"]
    ELSE IF b.failures + 1 >= failure_threshold
         THEN [b EXCEPT !.last_call = t, !.last_failure = t, !.failures = @ + 1,
                        !.state = "open"]
         ELSE [b EXCEPT !.last_call = t, !.last_failure = t, !.failures = @ + 1]

\* cooldown_until and now < cooldown_until
InCooldown(r, k, t) == r.cooldowns[k] # NoTime /\ t < r.cooldowns[k]

\* len(settings.cerebras_api_keys)
NumberOfKeys(r) == Cardinality(DOMAIN r.cooldowns)

RECURSIVE ScanKeys(_, _, _, _)
\* the for loop of get_next_key: n keys still to try, starting at index idx
ScanKeys(r, idx, n, t) ==
    IF n = 0
    THEN [key |-> NoTime, rot |-> [r EXCEPT !.index = idx]]
    ELSE IF InCooldown(r, idx, t)
         THEN ScanKeys(r, (idx + 1) % NumberOfKeys(r), n - 1, t)
         ELSE [key |-> idx, rot |-> [r EXCEPT !.index = (idx + 1) % NumberOfKeys(r)]]

\* variant: the scan starts at the first key on every call
GetNextKey_fromFirst(r, t) == ScanKeys(r, 0, NumberOfKeys(r), t)

\* ApiKeyRotator.get_next_key: [key, rot], key = NoTime when none is available
GetNextKey(r, t) == ScanKeys(r, r.index, NumberOfKeys(r), t)

\* ApiKeyRotator.set_key_cooldown
SetKeyCooldown(r, k, t, seconds) == [r EXCEPT !.cooldowns[k] = t + seconds]

\* how generate_summary ends for each upstream response
Outcome(resp) ==
    CASE resp = "200" -> "ok"
      [] resp = "429" -> "temporary:429"
      [] resp = "500" -> "temporary:5xx"
      [] resp = "400" -> "permanent:4xx"
      [] resp = "200invalid" -> "permanent:invalid"
      [] resp = "timeout" -> "temporary:timeout"
      [] resp = "connerr" -> "temporary:connection"

IsTemporary(r) ==
    r \in {"temporary:circuit", "temporary:keys", "temporary:429",
           "temporary:5xx", "temporary:timeout", "temporary:connection"}

CbParked ==
    /\ cb = ClosedBreaker
    /\ cbSaved = NotSaved
    /\ rot = [index |-> 0, cooldowns |-> [k \in KeyIndexes |-> NoTime]]
    /\ cpc = [c \in Callers |-> "idle"]
    /\ ckey = [c \in Callers |-> 0]
    /\ result = "none"
    /\ consec = 0
    /\ halfSucc = 0
    /\ sent = NoTime

CbTick ==
    /\ now < MaxCbTime
    /\ now' = Min(now + CbTickStep, MaxCbTime)
    /\ sent' = IF sent # NoTime /\ (now' - sent) * cerebras_max_rpm < 60
               THEN sent ELSE NoTime
    /\ UNCHANGED <<cb, cbSaved, rot, cpc, ckey, result, consec, halfSucc>>
    /\ UNCHANGED nonCbVars

\* _job_process_summaries asks circuit_breaker.can_call() before taking an entry
WorkerCanCall ==
    /\ LET cc == CanCall(cb, now)
       IN /\ cb' = cc.cb
          /\ cb' # cb
          /\ cbSaved' = cc.cb
          /\ halfSucc' = 0
    /\ UNCHANGED <<now, rot, cpc, ckey, result, consec, sent>>
    /\ UNCHANGED nonCbVars

\* generate_summary up to the POST; garbage: is_garbage_content(content)
GenStart(c, garbage) ==
    /\ cpc[c] = "idle"
    /\ IF garbage
       THEN /\ result' = "empty"
            /\ UNCHANGED <<cb, cbSaved, rot, cpc, ckey, halfSucc, sent>>
       ELSE LET cc == CanCall(cb, now)
                k == GetNextKey(rot, now)
            IN /\ cb' = cc.cb
               /\ cbSaved' = IF cc.cb # cb THEN cc.cb ELSE cbSaved
               /\ halfSucc' = IF cc.cb # cb THEN 0 ELSE halfSucc
               /\ IF ~cc.ok
                  THEN /\ result' = "temporary:circuit"
                       /\ UNCHANGED <<rot, cpc, ckey, sent>>
                  ELSE /\ rot' = k.rot
                       /\ IF k.key = NoTime
                          THEN /\ result' = "temporary:keys"
                               /\ UNCHANGED <<cpc, ckey, sent>>
                          ELSE /\ result' = "pending"
                               /\ sent' = now
                               /\ cpc' = [cpc EXCEPT ![c] = "inflight"]
                               /\ ckey' = [ckey EXCEPT ![c] = k.key]
    /\ UNCHANGED <<now, consec>>
    /\ UNCHANGED nonCbVars

\* variant: a 429 is recorded as a failure like a 5xx
GenResponse_429fails(c, resp) ==
    /\ cpc[c] = "inflight"
    /\ cpc' = [cpc EXCEPT ![c] = "idle"]
    /\ ckey' = [ckey EXCEPT ![c] = 0]
    /\ result' = Outcome(resp)
    /\ IF resp \in FailureResponses \cup {"429"}
       THEN /\ cb' = RecordFailure(cb, now)
            /\ cbSaved' = cb'
            /\ consec' = Min(consec + 1, failure_threshold)
            /\ rot' = IF resp = "429"
                      THEN SetKeyCooldown(rot, ckey[c], now, KEY_COOLDOWN_SECONDS)
                      ELSE rot
            /\ UNCHANGED halfSucc
       ELSE /\ cb' = RecordSuccess(cb, now)
            /\ cbSaved' = cb'
            /\ consec' = 0
            /\ halfSucc' = IF cb.state = "half" THEN halfSucc + 1 ELSE halfSucc
            /\ UNCHANGED rot
    /\ UNCHANGED <<now, sent>>
    /\ UNCHANGED nonCbVars

\* generate_summary from the upstream response to its return or raise
GenResponse(c, resp) ==
    /\ cpc[c] = "inflight"
    /\ cpc' = [cpc EXCEPT ![c] = "idle"]
    /\ ckey' = [ckey EXCEPT ![c] = 0]
    /\ result' = Outcome(resp)
    /\ IF resp = "429"
       THEN /\ rot' = SetKeyCooldown(rot, ckey[c], now, KEY_COOLDOWN_SECONDS)
            /\ UNCHANGED <<cb, cbSaved, consec, halfSucc>>
       ELSE IF resp \in FailureResponses
            THEN /\ cb' = RecordFailure(cb, now)
                 /\ cbSaved' = cb'
                 /\ consec' = Min(consec + 1, failure_threshold)
                 /\ UNCHANGED <<rot, halfSucc>>
            ELSE /\ cb' = RecordSuccess(cb, now)
                 /\ cbSaved' = cb'
                 /\ consec' = 0
                 /\ halfSucc' = IF cb.state = "half" THEN halfSucc + 1 ELSE halfSucc
                 /\ UNCHANGED rot
    /\ UNCHANGED <<now, sent>>
    /\ UNCHANGED nonCbVars

CbNext ==
    \/ CbTick
    \/ WorkerCanCall
    \/ \E c \in Callers, g \in BOOLEAN : GenStart(c, g)
    \/ \E c \in Callers, resp \in Responses : GenResponse(c, resp)

(***************************************************************************)
(* A restart of the service.  Importing app.main imports the route modules, *)
(* which import app.services.cerebras and so construct the module-level     *)
(* circuit_breaker and api_key_rotator from app_settings; the lifespan      *)
(* start-up then runs reset_ai_state.                                       *)
(***************************************************************************)
\* CircuitBreaker._load_state: the defaults, overwritten by the rows found
LoadState(saved) == IF saved = NotSaved THEN ClosedBreaker ELSE saved

\* the process ends, whatever it was doing, and a new one starts
Restart ==
    /\ cb' = LoadState(cbSaved)
    /\ cbSaved' = NotSaved
    /\ rot' = [rot EXCEPT !.cooldowns = [k \in KeyIndexes |-> NoTime]]
    /\ cpc' = [c \in Callers |-> "idle"]
    /\ ckey' = [c \in Callers |-> 0]
    /\ result' = "none"
    /\ UNCHANGED <<now, consec, halfSucc, sent>>
    /\ UNCHANGED nonCbVars

RestartNext ==
    \/ CbTick
    \/ WorkerCanCall
    \/ GenStart("route", FALSE)
    \/ \E resp \in {"200", "500"} : GenResponse("route", resp)
    \/ Restart

(***************************************************************************)
(* Key rotation on its own: one ApiKeyRotator with RotKeys keys, called by  *)
(* any caller; get_next_key runs under the rotator's lock.  used counts the *)
(* keys handed out since all keys were last found available.                *)
(***************************************************************************)
RotKeyIndexes == 0..(RotKeys - 1)

NoneUsed == [k \in RotKeyIndexes |-> 0]

RECURSIVE SumUpTo(_, _)
SumUpTo(u, k) == IF k < 0 THEN 0 ELSE u[k] + SumUpTo(u, k - 1)

\* calls of get_next_key in the current burst
Burst(u) == SumUpTo(u, RotKeys - 1)

AllAvailable(r, t) == \A k \in DOMAIN r.cooldowns : ~InCooldown(r, k, t)

\* one call of get_next_key by caller c
RotGetKey(c) ==
    /\ Burst(used) < MaxBurst
    /\ LET g == GetNextKey(rot, now)
       IN /\ rot' = g.rot
          /\ used' = IF AllAvailable(rot, now)
                     THEN [used EXCEPT ![g.key] = @ + 1]
                     ELSE NoneUsed
    /\ UNCHANGED <<now, cb, cbSaved, cpc, ckey, result, consec, halfSucc, sent>>
    /\ UNCHANGED <<leaderVars, ingestVars, summary_queue, queueVars, routeVars>>
    /\ UNCHANGED <<doc, runs, report, retentionVars, jobVars>>

\* set_key_cooldown(key) after a 429 on key k; the burst is over
RotCooldown(k) ==
    /\ rot' = SetKeyCooldown(rot, k, now, KEY_COOLDOWN_SECONDS)
    /\ used' = NoneUsed
    /\ UNCHANGED <<now, cb, cbSaved, cpc, ckey, result, consec, halfSucc, sent>>
    /\ UNCHANGED <<leaderVars, ingestVars, summary_queue, queueVars, routeVars>>
    /\ UNCHANGED <<doc, runs, report, retentionVars, jobVars>>

RotatorNext ==
    \/ CbTick
    \/ \E c \in Callers : RotGetKey(c)
    \/ \E k \in RotKeyIndexes : RotCooldown(k)


(***************************************************************************)
(* Feed ingestion (app/services/feed_ingestion.py, app/models.py)          *)
(*                                                                         *)
(* One feed is modelled; every index and every dedup query of the code is  *)
(* scoped by feed_id.  Each ingest_feed call owns a Session.  Its dedup    *)
(* SELECTs see the committed rows and the rows its own transaction has     *)
(* flushed; its first INSERT takes SQLite's write lock, held until the     *)
(* commit or rollback of the session.                                      *)
(***************************************************************************)
GUID_COLLISION_LIMIT == 3

NULL == "NULL"
NoHash == <<>>
NoHolder == "nobody"

\* the callers of ingest_feed that may run at the same time
Ingestors == {"update_feeds", "refresh_feed"}

Guids == {NULL, "g1"}
RawUrls == {NULL, "http://A/x", "http://a/x", "http://a/y"}
Contents == {NULL, "c1"}
Entries == [guid : Guids, url : RawUrls, content : Contents]

\* host to lower case
normalize_url(url) ==
    CASE url = NULL -> NULL
      [] url = "http://A/x" -> "http://a/x"
      [] OTHER -> url

\* the text that is hashed is title, url and content joined and lower-cased
normalize_for_hash(url) == IF url = "http://A/x" THEN "http://a/x" ELSE url

compute_content_hash(content, url) ==
    IF content = NULL THEN NoHash ELSE <<normalize_for_hash(url), content>>

NoPost == [guid |-> NULL, normalized_url |-> NULL, content_hash |-> NoHash]

IdleIngest ==
    [pc |-> "idle", post |-> NoPost, pending |-> <<>>,
     broken |-> FALSE, guid_collision_count |-> 0, guid_unreliable |-> FALSE,
     dirty |-> FALSE, error_count |-> 0, last_error |-> NULL]

NewFeed(allow) ==
    [guid_collision_count |-> 0, guid_unreliable |-> FALSE,
     allow_duplicate_urls |-> allow, error_count |-> 0,
     last_error |-> NULL, last_error_at |-> NoTime, last_fetched_at |-> NoTime]

\* the rows a SELECT of ingestor i returns
Visible(i) == posts \o ing[i].pending

\* Query.first(): the matching row of lowest rowid
FirstWithGuid(rows, guid) ==
    CHOOSE k \in DOMAIN rows :
        rows[k].guid = guid /\ \A m \in 1..(k - 1) : rows[m].guid # guid

check_duplicate_by_guid(rows, unreliable, guid, normalized_url) ==
    IF guid = NULL \/ ~\E k \in DOMAIN rows : rows[k].guid = guid
    THEN [dup |-> FALSE, collision |-> FALSE]
    ELSE IF unreliable
    THEN [dup |-> TRUE, collision |-> FALSE]
    ELSE LET existing == rows[FirstWithGuid(rows, guid)]
         IN [dup |-> TRUE,
             collision |-> /\ normalized_url # NULL
                           /\ existing.normalized_url # NULL
                           /\ existing.normalized_url # normalized_url]

check_duplicate_by_url(rows, allow, normalized_url) ==
    /\ normalized_url # NULL
    /\ ~allow
    /\ \E k \in DOMAIN rows : rows[k].normalized_url = normalized_url

check_duplicate_by_hash(rows, content_hash, has_guid, has_url) ==
    /\ content_hash # NoHash
    /\ ~(has_guid \/ has_url)
    /\ \E k \in DOMAIN rows : rows[k].content_hash = content_hash

\* _process_entry: the post to insert (dup = FALSE) or the skip, and the
\* collision counters of the Feed object afterwards
process_entry(rows, f, allow, entry) ==
    LET normalized_url == normalize_url(entry.url)
        content_hash == compute_content_hash(entry.content, entry.url)
        g == check_duplicate_by_guid(rows, f.guid_unreliable, entry.guid, normalized_url)
        count == IF g.collision THEN f.guid_collision_count + 1
                                ELSE f.guid_collision_count
        dup == \/ g.dup
               \/ check_duplicate_by_url(rows, allow, normalized_url)
               \/ check_duplicate_by_hash(rows, content_hash,
                                          entry.guid # NULL, normalized_url # NULL)
    IN [dup |-> dup,
        collision |-> g.collision,
        guid_collision_count |-> count,
        guid_unreliable |-> IF g.collision /\ count >= GUID_COLLISION_LIMIT
                            THEN TRUE ELSE f.guid_unreliable,
        post |-> [guid |-> entry.guid, normalized_url |-> normalized_url,
                  content_hash |-> content_hash]]

\* variant: idx_posts_guid is an ordinary, non-unique index
ViolatedIndexes_noGuid(rows, p) ==
    {x \in {"idx_posts_url", "idx_posts_content_hash"} :
        \E k \in DOMAIN rows :
            \/ /\ x = "idx_posts_url"
               /\ p.normalized_url # NULL
               /\ rows[k].normalized_url = p.normalized_url
            \/ /\ x = "idx_posts_content_hash"
               /\ p.content_hash # NoHash /\ p.guid = NULL /\ p.normalized_url = NULL
               /\ rows[k].content_hash = p.content_hash
               /\ rows[k].guid = NULL /\ rows[k].normalized_url = NULL}

\* the partial unique indexes of posts that refuse the INSERT of p
ViolatedIndexes(rows, p) ==
    {x \in {"idx_posts_guid", "idx_posts_url", "idx_posts_content_hash"} :
        \E k \in DOMAIN rows :
            \/ /\ x = "idx_posts_guid"
               /\ p.guid # NULL
               /\ rows[k].guid = p.guid
            \/ /\ x = "idx_posts_url"
               /\ p.normalized_url # NULL
               /\ rows[k].normalized_url = p.normalized_url
            \/ /\ x = "idx_posts_content_hash"
               /\ p.content_hash # NoHash /\ p.guid = NULL /\ p.normalized_url = NULL
               /\ rows[k].content_hash = p.content_hash
               /\ rows[k].guid = NULL /\ rows[k].normalized_url = NULL}

MaxId(q) == IF q = {} THEN 0 ELSE CHOOSE n \in {r.id : r \in q} : \A r \in q : r.id <= n

\* variant: every new post gets a queue entry, with or without a hash
NeedsQueueEntry_always(post) == TRUE

\* if post.content_hash: a post without a hash is not queued
NeedsQueueEntry(post) == post.content_hash # NoHash

\* the summary_queue rows the session adds for its new posts that have a hash
RECURSIVE QueueRows(_, _, _, _)
QueueRows(pending, first_post_id, first_id, t) ==
    IF pending = <<>> THEN {}
    ELSE IF ~NeedsQueueEntry(Head(pending))
    THEN QueueRows(Tail(pending), first_post_id + 1, first_id, t)
    ELSE {[id |-> first_id, post_id |-> first_post_id,
           content_hash |-> Head(pending).content_hash, priority |-> 0,
           attempts |-> 0, error_type |-> NULL, locked_at |-> NoTime,
           cooldown_until |-> NoTime, created_at |-> t]}
         \cup QueueRows(Tail(pending), first_post_id + 1, first_id + 1, t)

IngestParked ==
    /\ posts = <<>>
    /\ feed = NewFeed(FALSE)
    /\ wlock = NoHolder
    /\ ing = [i \in Ingestors |-> IdleIngest]
    /\ processed = 0
    /\ rejected = {}

\* str(e) of the FeedFetchError or FeedParseError
FetchError == "error"

\* the caller of ingest_feed has its session load the feed row; the Feed
\* object keeps what it loaded while fetch_and_parse awaits the network
IngestCall(i) ==
    /\ ing[i].pc = "idle"
    /\ ing' = [ing EXCEPT ![i] =
                  [IdleIngest EXCEPT
                      !.pc = "fetch",
                      !.guid_collision_count = feed.guid_collision_count,
                      !.guid_unreliable = feed.guid_unreliable,
                      !.error_count = feed.error_count,
                      !.last_error = feed.last_error]]
    /\ UNCHANGED <<posts, feed, summary_queue, wlock, processed, rejected>>
    /\ UNCHANGED <<now, leaderVars, cbVars, queueVars, routeVars, auxVars>>

\* the feed row after the error path of ingest_feed: the UPDATE writes the
\* columns the Feed object changed, computed from what it had loaded
FailedFetch(f, snapshot, t) ==
    [f EXCEPT !.error_count = snapshot.error_count + 1,
              !.last_error = FetchError,
              !.last_error_at = t]

\* the feed row after the final commit of ingest_feed: a column whose new
\* value is the loaded one is not part of the UPDATE
IngestedFeed(f, snapshot, t) ==
    [f EXCEPT !.last_fetched_at = t,
              !.error_count = IF snapshot.error_count # 0 THEN 0 ELSE @,
              !.last_error = IF snapshot.last_error # NULL THEN NULL ELSE @,
              !.guid_collision_count =
                  IF snapshot.dirty THEN snapshot.guid_collision_count ELSE @,
              !.guid_unreliable =
                  IF snapshot.dirty THEN snapshot.guid_unreliable ELSE @]

\* ingest_feed up to the entry loop: fetch_and_parse fails (error path,
\* committed at once) or yields a document
IngestStart(i, fetched) ==
    /\ ing[i].pc = "fetch"
    /\ IF fetched
       THEN /\ ing' = [ing EXCEPT ![i] = [@ EXCEPT !.pc = "loop"]]
            /\ UNCHANGED <<feed, processed>>
       ELSE /\ wlock = NoHolder
            /\ processed < MaxEntries
            /\ processed' = processed + 1
            /\ feed' = FailedFetch(feed, ing[i], now)
            /\ ing' = [ing EXCEPT ![i] = IdleIngest]
    /\ UNCHANGED <<posts, summary_queue, wlock, rejected>>
    /\ UNCHANGED <<now, leaderVars, cbVars, queueVars, routeVars, auxVars>>

\* one iteration of the entry loop up to db.add(post): _process_entry on the
\* next entry of the document
EntryStep(i, entry) ==
    /\ ing[i].pc = "loop"
    /\ ~ing[i].broken
    /\ processed < MaxEntries
    /\ processed' = processed + 1
    /\ LET r == process_entry(Visible(i), ing[i], feed.allow_duplicate_urls, entry)
           counted == [ing[i] EXCEPT
                          !.guid_collision_count = r.guid_collision_count,
                          !.guid_unreliable = r.guid_unreliable,
                          !.dirty = @ \/ r.collision]
       IN IF r.dup
          THEN ing' = [ing EXCEPT ![i] = counted]
          ELSE ing' = [ing EXCEPT ![i] =
                          [counted EXCEPT !.post = r.post, !.pc = "flush"]]
    /\ UNCHANGED <<posts, feed, summary_queue, wlock, rejected>>
    /\ UNCHANGED <<now, leaderVars, cbVars, queueVars, routeVars, auxVars>>

\* db.add(post); db.flush(): the INSERT.  A refused INSERT raises inside the
\* per-entry try: the transaction is rolled back, and the session then refuses
\* every further statement, so each remaining entry raises as well
Flush(i) ==
    /\ ing[i].pc = "flush"
    /\ wlock \in {NoHolder, i}
    /\ LET refused == ViolatedIndexes(Visible(i), ing[i].post)
       IN IF refused # {}
          THEN /\ ing' = [ing EXCEPT ![i] =
                             [@ EXCEPT !.pc = "loop", !.post = NoPost,
                                       !.pending = <<>>, !.broken = TRUE]]
               /\ wlock' = NoHolder
               /\ rejected' = rejected \cup refused
          ELSE /\ ing' = [ing EXCEPT ![i] =
                             [@ EXCEPT !.pc = "loop", !.post = NoPost,
                                       !.pending = Append(@, ing[i].post)]]
               /\ wlock' = i
               /\ UNCHANGED rejected
    /\ UNCHANGED <<posts, feed, summary_queue, processed>>
    /\ UNCHANGED <<now, leaderVars, cbVars, queueVars, routeVars, auxVars>>

\* the document is exhausted: the final db.commit() of ingest_feed; on a
\* broken session it raises and the handler rolls back
Commit(i) ==
    /\ ing[i].pc = "loop"
    /\ IF ing[i].broken
       THEN UNCHANGED <<posts, feed, summary_queue, wlock>>
       ELSE /\ wlock \in {NoHolder, i}
            /\ posts' = posts \o ing[i].pending
            /\ summary_queue' = summary_queue \cup
                   QueueRows(ing[i].pending, Len(posts) + 1,
                             MaxId(summary_queue) + 1, now)
            /\ feed' = IngestedFeed(feed, ing[i], now)
            /\ wlock' = NoHolder
    /\ ing' = [ing EXCEPT ![i] = IdleIngest]
    /\ UNCHANGED <<processed, rejected>>
    /\ UNCHANGED <<now, leaderVars, cbVars, queueVars, routeVars, auxVars>>

\* busy_timeout expires while another connection holds the write lock
BusyTimeout(i) ==
    /\ wlock \notin {NoHolder, i}
    /\ \/ /\ ing[i].pc = "flush"
          /\ ing' = [ing EXCEPT ![i] =
                        [@ EXCEPT !.pc = "loop", !.post = NoPost, !.broken = TRUE]]
       \/ /\ ing[i].pc = "loop"
          /\ ~ing[i].broken
          /\ ing' = [ing EXCEPT ![i] = IdleIngest]
    /\ UNCHANGED <<posts, feed, summary_queue, wlock, processed, rejected>>
    /\ UNCHANGED <<now, leaderVars, cbVars, queueVars, routeVars, auxVars>>

IngestNext ==
    \/ \E i \in Ingestors : IngestCall(i)
    \/ \E i \in Ingestors, fetched \in BOOLEAN : IngestStart(i, fetched)
    \/ \E i \in Ingestors, entry \in Entries : EntryStep(i, entry)
    \/ \E i \in Ingestors : Flush(i)
    \/ \E i \in Ingestors : Commit(i)
    \/ \E i \in Ingestors : BusyTimeout(i)


(***************************************************************************)
(* ingest_feed on a whole document, one call after the other on one feed    *)
(* (no other session writes in between): the entry loop, the final commit   *)
(* and the FeedIngestionResult.                                             *)
(***************************************************************************)
\* no link, and three links with pairwise different normalized URLs
DocUrls == {NULL, "http://A/x", "http://a/y", "http://a/z"}

DocEntries == [guid : Guids, url : DocUrls, content : Contents]

RECURSIVE SeqsUpTo(_, _)
\* the sequences over S of length at most n
SeqsUpTo(S, n) ==
    IF n = 0 THEN {<<>>}
    ELSE SeqsUpTo(S, n - 1) \cup
         {Append(q, x) : q \in {p \in SeqsUpTo(S, n - 1) : Len(p) = n - 1}, x \in S}

NoReport == [new_posts |-> 0, skipped_duplicates |-> 0, errors |-> 0, fetched |-> FALSE]

\* session and result at the start of ingest_feed
FreshSession(f) ==
    [pending |-> <<>>, broken |-> FALSE, dirty |-> FALSE,
     guid_collision_count |-> f.guid_collision_count,
     guid_unreliable |-> f.guid_unreliable,
     new_posts |-> 0, skipped_duplicates |-> 0, errors |-> 0, refused |-> {}]

RECURSIVE IngestEntries(_, _, _, _)
\* the for loop of ingest_feed over entries, in a session st on top of the
\* committed rows: a skipped entry counts as duplicate, an inserted one as
\* new; a refused INSERT raises, rolls the transaction back and leaves a
\* session in which every later entry raises as well
IngestEntries(entries, rows, allow, st) ==
    IF entries = <<>> THEN st
    ELSE IF st.broken
    THEN IngestEntries(Tail(entries), rows, allow, [st EXCEPT !.errors = @ + 1])
    ELSE LET r == process_entry(rows \o st.pending, st, allow, Head(entries))
             counted == [st EXCEPT
                            !.guid_collision_count = r.guid_collision_count,
                            !.guid_unreliable = r.guid_unreliable,
                            !.dirty = @ \/ r.collision]
             violated == ViolatedIndexes(rows \o st.pending, r.post)
         IN IF r.dup
            THEN IngestEntries(Tail(entries), rows, allow,
                               [counted EXCEPT !.skipped_duplicates = @ + 1])
            ELSE IF violated # {}
            THEN IngestEntries(Tail(entries), rows, allow,
                               [counted EXCEPT !.broken = TRUE, !.pending = <<>>,
                                               !.errors = @ + 1,
                                               !.refused = @ \cup violated])
            ELSE IngestEntries(Tail(entries), rows, allow,
                               [counted EXCEPT !.pending = Append(@, r.post),
                                               !.new_posts = @ + 1])

\* ingest_feed(db, feed) on a fetched and parsed document
IngestDocument ==
    /\ runs < MaxRuns
    /\ runs' = runs + 1
    /\ LET st == IngestEntries(doc, posts, feed.allow_duplicate_urls, FreshSession(feed))
       IN /\ report' = [new_posts |-> st.new_posts,
                        skipped_duplicates |-> st.skipped_duplicates,
                        errors |-> IF st.broken THEN st.errors + 1 ELSE st.errors,
                        fetched |-> TRUE]
          /\ rejected' = rejected \cup st.refused
          /\ IF st.broken
             THEN UNCHANGED <<posts, feed, summary_queue>>
             ELSE /\ posts' = posts \o st.pending
                  /\ summary_queue' = summary_queue \cup
                         QueueRows(st.pending, Len(posts) + 1,
                                   MaxId(summary_queue) + 1, now)
                  /\ feed' = IngestedFeed(feed,
                                st @@ [error_count |-> feed.error_count,
                                       last_error |-> feed.last_error],
                                now)
    /\ UNCHANGED <<now, wlock, ing, processed, used, doc, retentionVars, jobVars>>
    /\ UNCHANGED <<leaderVars, cbVars, queueVars, routeVars>>

DocNext == IngestDocument

(***************************************************************************)
(* Summary queue worker (Scheduler._job_process_summaries)                 *)
(*                                                                         *)
(* A worker is the process_summaries task of a process that believes it is *)
(* the leader.  The claim UPDATE and its commit are one step: the UPDATE    *)
(* takes SQLite's write lock and the commit follows without an await.      *)
(* What generate_summary answers, and what the worker finds in the posts    *)
(* table, are inputs of the steps.                                         *)
(***************************************************************************)
Workers == {"w1", "w2"}

NoCandidate == 0

\* ids of the queue rows of the runs
QueueIds == {1, 2}

H1 == <<NULL, "c1">>
H2 == <<"http://a/y", "c1">>

QueueRow(id, hash, prio, att) ==
    [id |-> id, post_id |-> id, content_hash |-> hash, priority |-> prio,
     attempts |-> att, error_type |-> IF att = 0 THEN NULL ELSE "temporary",
     locked_at |-> NoTime, cooldown_until |-> NoTime, created_at |-> 0]

IdleWorker ==
    [pc |-> "idle", now |-> 0, candidate |-> NoCandidate, loaded |-> FALSE,
     content_hash |-> NoHash, attempts |-> 0, locked_at |-> NoTime]

Verdicts == {"post_missing", "is_read", "no_content", "content", "content_fetched"}
Outcomes == {"success", "temporary", "keys_cooldown", "permanent"}

\* variant: a lock is only ever given up by its holder
LockFree_noTimeout(r, t) == r.locked_at = NoTime

\* locked_at IS NULL OR locked_at < lock_timeout
LockFree(r, t) ==
    r.locked_at = NoTime \/ r.locked_at < t - summary_lock_timeout_seconds

\* cooldown_until IS NULL OR cooldown_until < now
CooledDown(r, t) == r.cooldown_until = NoTime \/ r.cooldown_until < t

Ready(q, t) == {r \in q : LockFree(r, t) /\ CooledDown(r, t)}

\* ORDER BY priority DESC, created_at ASC: the rows that may come first
FirstRows(rs) ==
    {r \in rs : \A o \in rs :
        \/ r.priority > o.priority
        \/ r.priority = o.priority /\ r.created_at <= o.created_at}

RowsById(q, id) == {r \in q : r.id = id}

\* variant: the claim UPDATE filters on the id alone
ClaimMatches_idOnly(q, id, t) == RowsById(q, id)

\* the rows the claim UPDATE of a worker matches
ClaimMatches(q, id, t) == {r \in RowsById(q, id) : LockFree(r, t)}

SetLockedAt(q, rs, t) == (q \ rs) \cup {[r EXCEPT !.locked_at = t] : r \in rs}

QueueParked ==
    /\ ai_summaries = {}
    /\ summary_failures = {}
    /\ wk = [w \in Workers |-> IdleWorker]
    /\ calls = 0
    /\ res = [w \in Workers |-> "none"]
    /\ race = FALSE

QTick ==
    /\ now < MaxQTime
    /\ now' = Min(now + QTickStep, MaxQTime)
    /\ UNCHANGED <<summary_queue, queueVars>>
    /\ UNCHANGED <<leaderVars, cbVars, ingestVars, routeVars, auxVars>>

\* now = utcnow(); the SELECT of the next eligible row
Select(w, id) ==
    /\ wk[w].pc = "idle"
    /\ \E r \in FirstRows(Ready(summary_queue, now)) : r.id = id
    /\ wk' = [wk EXCEPT ![w] =
                 [IdleWorker EXCEPT !.pc = "selected", !.now = now,
                                    !.candidate = id]]
    /\ res' = [res EXCEPT ![w] = "none"]
    /\ race' = \E v \in Workers \ {w} :
                   wk[v].pc = "selected" /\ wk[v].candidate = id
    /\ UNCHANGED <<now, summary_queue, ai_summaries, summary_failures, calls>>
    /\ UNCHANGED <<leaderVars, cbVars, ingestVars, routeVars, auxVars>>

\* the conditional UPDATE; zero rows: rollback and back to the loop head
Claim(w) ==
    /\ wk[w].pc = "selected"
    /\ LET rs == ClaimMatches(summary_queue, wk[w].candidate, wk[w].now)
       IN IF rs = {}
          THEN /\ wk' = [wk EXCEPT ![w] = [@ EXCEPT !.pc = "idle"]]
               /\ res' = [res EXCEPT ![w] = "zero"]
               /\ UNCHANGED summary_queue
          ELSE /\ summary_queue' = SetLockedAt(summary_queue, rs, wk[w].now)
               /\ wk' = [wk EXCEPT ![w] = [@ EXCEPT !.pc = "claimed"]]
               /\ res' = [res EXCEPT ![w] = "one"]
    /\ UNCHANGED <<now, ai_summaries, summary_failures, calls, race>>
    /\ UNCHANGED <<leaderVars, cbVars, ingestVars, routeVars, auxVars>>

\* variant: the worker summarises read posts as well
DropsEntry_readToo(r, sums, verdict) ==
    \/ r.content_hash \in sums
    \/ verdict \in {"post_missing", "no_content"}

\* the checks after the claim that end in the DELETE of the queue row: a
\* summary of the hash exists, the post is gone, the post is read, or there
\* is no content at all
DropsEntry(r, sums, verdict) ==
    \/ r.content_hash \in sums
    \/ verdict \in {"post_missing", "is_read", "no_content"}

\* from the commit of the claim to the call of generate_summary: the row is
\* reloaded (it may be gone: the access raises), then dropped from the queue
\* if a summary of its hash exists, the post is gone or read, or there is no
\* content; a commit of fetched full content expires the loaded row again
Examine(w, verdict) ==
    /\ wk[w].pc = "claimed"
    /\ LET rs == RowsById(summary_queue, wk[w].candidate)
       IN IF rs = {}
          THEN /\ wk' = [wk EXCEPT ![w] = [@ EXCEPT !.pc = "idle"]]
               /\ UNCHANGED <<summary_queue, calls>>
          ELSE LET r == CHOOSE x \in rs : TRUE
               IN IF DropsEntry(r, ai_summaries, verdict)
                  THEN /\ summary_queue' = summary_queue \ rs
                       /\ wk' = [wk EXCEPT ![w] = [@ EXCEPT !.pc = "idle"]]
                       /\ UNCHANGED calls
                  ELSE /\ calls < MaxCalls
                       /\ calls' = calls + 1
                       /\ wk' = [wk EXCEPT ![w] =
                                    IF verdict = "content_fetched"
                                    THEN [@ EXCEPT !.pc = "calling"]
                                    ELSE [@ EXCEPT !.pc = "calling",
                                                   !.loaded = TRUE,
                                                   !.content_hash = r.content_hash,
                                                   !.attempts = r.attempts,
                                                   !.locked_at = r.locked_at]]
                       /\ UNCHANGED summary_queue
    /\ UNCHANGED <<now, ai_summaries, summary_failures, res, race>>
    /\ UNCHANGED <<leaderVars, cbVars, ingestVars, routeVars, auxVars>>

\* variant: the handlers leave locked_at alone
ClearLock_never(r, w) == r

\* candidate.locked_at = None on row r: the UPDATE carries the column only
\* if the value differs from the one the session loaded
ClearLock(r, w) ==
    IF wk[w].loaded /\ wk[w].locked_at = NoTime THEN r ELSE [r EXCEPT !.locked_at = NoTime]

\* the attempts counter and the lock of row r after a failure
AfterTemporary(r, att, t) ==
    IF att + 1 >= MAX_ATTEMPTS
    THEN [r EXCEPT !.attempts = 0, !.error_type = "temporary",
                   !.cooldown_until = t + COOLDOWN_SECONDS]
    ELSE [r EXCEPT !.attempts = att + 1, !.error_type = "temporary"]

\* generate_summary returned or raised: the success path and the handlers
\* of TemporaryError and PermanentError, up to the commit.  An expired row
\* object is reloaded on its first access, which raises if the row is gone;
\* so does the commit of an UPDATE of a row that is gone; a second summary
\* of one hash is refused by the unique column.  In each of these cases the
\* outer handler rolls back.
Finish(w, outcome) ==
    /\ wk[w].pc = "calling"
    /\ wk' = [wk EXCEPT ![w] =
                 [IdleWorker EXCEPT !.now = wk[w].now,
                                    !.candidate = wk[w].candidate]]
    /\ LET rs == RowsById(summary_queue, wk[w].candidate)
           gone == rs = {}
           r == CHOOSE x \in rs : TRUE
           hash == IF wk[w].loaded THEN wk[w].content_hash ELSE r.content_hash
           att == IF wk[w].loaded THEN wk[w].attempts ELSE r.attempts
       IN CASE outcome = "success" ->
                 IF (gone /\ ~wk[w].loaded) \/ hash \in ai_summaries
                 THEN UNCHANGED <<summary_queue, ai_summaries, summary_failures>>
                 ELSE /\ ai_summaries' = ai_summaries \cup {hash}
                      /\ summary_queue' = summary_queue \ rs
                      /\ UNCHANGED summary_failures
            [] outcome = "keys_cooldown" ->
                 /\ summary_queue' =
                        IF gone THEN summary_queue
                        ELSE (summary_queue \ rs) \cup {ClearLock(r, w)}
                 /\ UNCHANGED <<ai_summaries, summary_failures>>
            [] outcome = "temporary" ->
                 /\ summary_queue' =
                        IF gone THEN summary_queue
                        ELSE (summary_queue \ rs) \cup
                                 {ClearLock(AfterTemporary(r, att, wk[w].now), w)}
                 /\ UNCHANGED <<ai_summaries, summary_failures>>
            [] outcome = "permanent" ->
                 IF gone
                 THEN UNCHANGED <<summary_queue, ai_summaries, summary_failures>>
                 ELSE IF att + 1 >= MAX_ATTEMPTS
                 THEN /\ summary_failures' = summary_failures \cup {hash}
                      /\ summary_queue' = summary_queue \ rs
                      /\ UNCHANGED ai_summaries
                 ELSE /\ summary_queue' = (summary_queue \ rs) \cup
                             {ClearLock([r EXCEPT !.attempts = att + 1,
                                                  !.error_type = "permanent"], w)}
                      /\ UNCHANGED <<ai_summaries, summary_failures>>
    /\ UNCHANGED <<now, calls, res, race>>
    /\ UNCHANGED <<leaderVars, cbVars, ingestVars, routeVars, auxVars>>

\* reset_ai_state, run by every process at start-up
ResetAiState ==
    /\ summary_queue' = {[r EXCEPT !.cooldown_until = NoTime, !.attempts = 0,
                                   !.locked_at = NoTime] : r \in summary_queue}
    /\ summary_queue' # summary_queue
    /\ UNCHANGED <<now, queueVars>>
    /\ UNCHANGED <<leaderVars, cbVars, ingestVars, routeVars, auxVars>>

QueueNext ==
    \/ QTick
    \/ \E w \in Workers, id \in QueueIds : Select(w, id)
    \/ \E w \in Workers : Claim(w)
    \/ \E w \in Workers, verdict \in Verdicts : Examine(w, verdict)
    \/ \E w \in Workers, outcome \in Outcomes : Finish(w, outcome)
    \/ ResetAiState


(***************************************************************************)
(* The head of a process_summaries iteration: the worker asks the circuit   *)
(* breaker and the key rotator of its process before it looks at the queue. *)
(* The on-demand routes of the same process call generate_summary on the    *)
(* same breaker and rotator.                                                *)
(***************************************************************************)
\* ApiKeyRotator.has_available_key: peeks, does not advance the index
HasAvailableKey(r, t) == \E k \in DOMAIN r.cooldowns : ~InCooldown(r, k, t)

\* variant: the worker goes on whatever can_call answers
GateOpen_always(b, r, t) == HasAvailableKey(r, t)

\* both checks at the head of the iteration let the worker through
GateOpen(b, r, t) == CanCall(b, t).ok /\ HasAvailableKey(r, t)

\* the iteration ends at one of the two checks: sleep, then the next one
TickDenied(w) ==
    /\ wk[w].pc = "idle"
    /\ ~GateOpen(cb, rot, now)
    /\ cb' = CanCall(cb, now).cb
    /\ cbSaved' = IF cb' # cb THEN cb' ELSE cbSaved
    /\ halfSucc' = IF cb' # cb THEN 0 ELSE halfSucc
    /\ res' = [res EXCEPT ![w] = "denied"]
    /\ UNCHANGED <<now, rot, cpc, ckey, result, consec, sent>>
    /\ UNCHANGED <<summary_queue, ai_summaries, summary_failures, wk, calls, race>>
    /\ UNCHANGED <<leaderVars, ingestVars, routeVars, auxVars>>

\* both checks pass: now = utcnow() and the SELECT of the next eligible row
TickSelect(w, id) ==
    /\ wk[w].pc = "idle"
    /\ GateOpen(cb, rot, now)
    /\ cb' = CanCall(cb, now).cb
    /\ cbSaved' = IF cb' # cb THEN cb' ELSE cbSaved
    /\ halfSucc' = IF cb' # cb THEN 0 ELSE halfSucc
    /\ \E r \in FirstRows(Ready(summary_queue, now)) : r.id = id
    /\ wk' = [wk EXCEPT ![w] =
                 [IdleWorker EXCEPT !.pc = "selected", !.now = now,
                                    !.candidate = id]]
    /\ res' = [res EXCEPT ![w] = "none"]
    /\ UNCHANGED <<now, rot, cpc, ckey, result, consec, sent>>
    /\ UNCHANGED <<summary_queue, ai_summaries, summary_failures, calls, race>>
    /\ UNCHANGED <<leaderVars, ingestVars, routeVars, auxVars>>

GateTick ==
    /\ now + GateTickStep <= MaxGateTime
    /\ now' = now + GateTickStep
    /\ UNCHANGED <<summary_queue, queueVars>>
    /\ UNCHANGED <<leaderVars, cbVars, ingestVars, routeVars, auxVars>>

\* the routes' calls fail (429, 5xx); the worker finds its posts read
GateNext ==
    \/ GateTick
    \/ GenStart("route", FALSE)
    \/ \E resp \in {"429", "500"} : GenResponse("route", resp)
    \/ TickDenied("w1")
    \/ \E id \in QueueIds : TickSelect("w1", id)
    \/ Claim("w1")
    \/ Examine("w1", "is_read")


(***************************************************************************)
(* The queue over unbounded time.  The program compares its timestamps only *)
(* with the clock, so the passing of d seconds is modelled by moving every  *)
(* stored timestamp d seconds into the past while the clock reading stays;  *)
(* a timestamp older than every threshold stops at 0.                       *)
(***************************************************************************)
\* the reading of the clock, later than any lock timeout counted from 0
FarNow == MaxQTime

Earlier(ts, d) == IF ts = NoTime THEN NoTime ELSE IF ts <= d THEN 0 ELSE ts - d

\* d seconds pass
Elapse(d) ==
    /\ summary_queue' = {[r EXCEPT !.locked_at = Earlier(@, d),
                                   !.cooldown_until = Earlier(@, d),
                                   !.created_at = Earlier(@, d)] :
                            r \in summary_queue}
    /\ wk' = [w \in Workers |->
                 [wk[w] EXCEPT !.now = Earlier(@, d),
                               !.locked_at = Earlier(@, d)]]
    /\ UNCHANGED <<now, ai_summaries, summary_failures, calls, res, race>>
    /\ UNCHANGED <<leaderVars, cbVars, ingestVars, routeVars, auxVars>>

\* the clock advances by a worker interval or by a whole cooldown
Elapsing == \E d \in {QTickStep, COOLDOWN_SECONDS} : Elapse(d)

\* GET /posts/{id} of an unsummarised post: the on-demand summary is stored
get_post_summary(hash) ==
    /\ hash \notin ai_summaries
    /\ ai_summaries' = ai_summaries \cup {hash}
    /\ UNCHANGED <<now, summary_queue, summary_failures, wk, calls, res, race>>
    /\ UNCHANGED <<leaderVars, cbVars, ingestVars, routeVars, auxVars>>

\* a worker that takes no further step has died or lost its leadership
LockNext ==
    \/ Elapsing
    \/ \E w \in Workers, id \in QueueIds : Select(w, id)
    \/ \E w \in Workers : Claim(w)
    \/ \E w \in Workers, verdict \in Verdicts : Examine(w, verdict)
    \/ \E w \in Workers, outcome \in Outcomes : Finish(w, outcome)
    \/ \E hash \in {H1} : get_post_summary(hash)
    \/ ResetAiState

(***************************************************************************)
(* Other writers of summary_queue: the backfill sweep of the feed update    *)
(* job (scheduler.py), POST /admin/reprocess-summary (routes/admin.py) and  *)
(* POST /posts/{id}/regenerate-summary (routes/posts.py).                   *)
(*                                                                         *)
(* Each writes in one commit; a commit whose INSERT breaks the UNIQUE       *)
(* constraint of summary_queue.post_id raises and leaves the tables as      *)
(* they were.  Posts are taken to be unread and to have enough content.     *)
(***************************************************************************)
\* the text regenerate_summary hashes when it is not the feed's raw content
FULL == "full"

NoRegen == 0

PostIds == 1..MaxEntries

QueueHashes == {<<u, c>> : u \in {normalize_url(x) : x \in RawUrls}, c \in {"c1", FULL}}

\* variant: summary_queue.post_id is declared without unique=True
PostIdTaken_never(q, post_id) == FALSE

\* the UNIQUE constraint of summary_queue.post_id refuses a row for post_id
PostIdTaken(q, post_id) == \E r \in q : r.post_id = post_id

NewQueueRow(id, post_id, hash, prio, t) ==
    [id |-> id, post_id |-> post_id, content_hash |-> hash, priority |-> prio,
     attempts |-> 0, error_type |-> NULL, locked_at |-> NoTime,
     cooldown_until |-> NoTime, created_at |-> t]

\* Post.is_read; a post that has no row in post_rows has the column default
IsRead(rows, k) == \E p \in rows : p.id = k /\ p.is_read

\* unread posts with a content hash that is neither queued nor summarised
Orphaned(ps, rows, q, sums) ==
    {k \in DOMAIN ps :
        /\ ps[k].content_hash # NoHash
        /\ ~IsRead(rows, k)
        /\ \A r \in q : r.content_hash # ps[k].content_hash
        /\ ps[k].content_hash \notin sums}

NoLog == [executed_at |-> NoTime, posts_removed |-> 0, unread_removed |-> 0,
          full_content_cleared |-> 0]

\* no comparison request is in flight
NoBatch == {0}

RetentionParked ==
    /\ post_rows = {}
    /\ cleanup_logs = NoLog

JobsParked ==
    /\ feeds = <<>>
    /\ picked = {}
    /\ pass_no = 0
    /\ sug_posts = <<>>
    /\ batch = NoBatch

AuxParked ==
    /\ used = <<>>
    /\ doc = <<>>
    /\ runs = 0
    /\ report = NoReport
    /\ RetentionParked
    /\ JobsParked

RoutesParked ==
    /\ regen = NoRegen
    /\ ops = 0

\* _backfill_missing_summaries: one low-priority row per orphaned post of the
\* batch (at most BACKFILL_LIMIT posts, whichever the ORDER BY puts first),
\* all in one transaction
Backfill ==
    /\ ops < MaxOps
    /\ ops' = ops + 1
    /\ wlock = NoHolder
    /\ LET found == Orphaned(posts, post_rows, summary_queue, ai_summaries)
       IN \E orphaned \in SUBSET found :
             /\ Cardinality(orphaned) = Min(Cardinality(found), BACKFILL_LIMIT)
             /\ orphaned # {}
             /\ IF \E k \in orphaned : PostIdTaken(summary_queue, k)
                THEN /\ rejected' = rejected \cup {"summary_queue.post_id"}
                     /\ UNCHANGED summary_queue
                ELSE /\ summary_queue' = summary_queue \cup
                           {NewQueueRow(MaxId(summary_queue) +
                                            Cardinality({j \in orphaned : j <= k}),
                                        k, posts[k].content_hash, 0 - 1, now) :
                                k \in orphaned}
                     /\ UNCHANGED rejected
    /\ UNCHANGED <<now, posts, feed, wlock, ing, processed, regen>>
    /\ UNCHANGED <<ai_summaries, summary_failures, wk, calls, res, race>>
    /\ UNCHANGED <<leaderVars, cbVars, auxVars>>

\* reprocess_summary: reset the queued row of this hash, or drop the failure
\* and the summary of the hash and queue the first post that has it
Reprocess(hash) ==
    /\ ops < MaxOps
    /\ ops' = ops + 1
    /\ wlock = NoHolder
    /\ \E k \in DOMAIN posts : posts[k].content_hash = hash
    /\ LET post_id == CHOOSE k \in DOMAIN posts :
                          /\ posts[k].content_hash = hash
                          /\ \A j \in 1..(k - 1) : posts[j].content_hash # hash
           queued == {r \in summary_queue : r.content_hash = hash}
           existing_queue == CHOOSE r \in queued : \A o \in queued : r.id <= o.id
       IN IF queued # {}
          THEN /\ summary_queue' = (summary_queue \ {existing_queue}) \cup
                     {[existing_queue EXCEPT !.attempts = 0, !.error_type = NULL,
                                             !.locked_at = NoTime,
                                             !.cooldown_until = NoTime,
                                             !.priority = 10]}
               /\ UNCHANGED <<ai_summaries, summary_failures, rejected>>
          ELSE IF PostIdTaken(summary_queue, post_id)
          THEN /\ rejected' = rejected \cup {"summary_queue.post_id"}
               /\ UNCHANGED <<summary_queue, ai_summaries, summary_failures>>
          ELSE /\ summary_queue' = summary_queue \cup
                     {NewQueueRow(MaxId(summary_queue) + 1, post_id, hash, 10, now)}
               /\ ai_summaries' = ai_summaries \ {hash}
               /\ summary_failures' = summary_failures \ {hash}
               /\ UNCHANGED rejected
    /\ UNCHANGED <<now, posts, feed, wlock, ing, processed, regen>>
    /\ UNCHANGED <<wk, calls, res, race>>
    /\ UNCHANGED <<leaderVars, cbVars, auxVars>>

\* regenerate_summary up to the call of generate_summary: the hash of the
\* post is recomputed from the text now at hand (the full text, or the stored
\* sanitised content) and stored if it differs; full says that this text is
\* not the one that was hashed at ingestion
RegenerateHash(k, full) ==
    /\ regen = NoRegen
    /\ ops < MaxOps
    /\ ops' = ops + 1
    /\ wlock = NoHolder
    /\ k \in DOMAIN posts
    /\ LET new_content_hash == IF full THEN <<posts[k].normalized_url, FULL>>
                                       ELSE posts[k].content_hash
           refused == /\ posts[k].guid = NULL /\ posts[k].normalized_url = NULL
                      /\ \E j \in DOMAIN posts \ {k} :
                            /\ posts[j].guid = NULL /\ posts[j].normalized_url = NULL
                            /\ posts[j].content_hash = new_content_hash
       IN /\ new_content_hash # NoHash
          /\ IF new_content_hash # posts[k].content_hash /\ refused
             THEN /\ rejected' = rejected \cup {"idx_posts_content_hash"}
                  /\ UNCHANGED <<posts, regen>>
             ELSE /\ posts' = [posts EXCEPT ![k].content_hash = new_content_hash]
                  /\ regen' = k
                  /\ UNCHANGED rejected
    /\ UNCHANGED <<now, feed, wlock, ing, processed>>
    /\ UNCHANGED <<summary_queue, queueVars>>
    /\ UNCHANGED <<leaderVars, cbVars, auxVars>>

\* regenerate_summary after generate_summary: upsert of the summary of the hash
RegenerateSummary(ok) ==
    /\ regen # NoRegen
    /\ regen' = NoRegen
    /\ ai_summaries' = IF ok THEN ai_summaries \cup {posts[regen].content_hash}
                             ELSE ai_summaries
    /\ UNCHANGED <<now, ingestVars, ops>>
    /\ UNCHANGED <<summary_queue, summary_failures, wk, calls, res, race>>
    /\ UNCHANGED <<leaderVars, cbVars, auxVars>>

\* the entries fed to the ingestion here: two links, one with a guid
RequeueEntries ==
    {[guid |-> "g1", url |-> "http://a/y", content |-> "c1"],
     [guid |-> NULL, url |-> "http://a/x", content |-> "c1"]}

\* one ingestion at a time, the requeueing operations, and one worker, whose
\* steps remove entries or release them
RequeueNext ==
    \/ IngestCall("refresh_feed")
    \/ IngestStart("refresh_feed", TRUE)
    \/ \E entry \in RequeueEntries : EntryStep("refresh_feed", entry)
    \/ Flush("refresh_feed")
    \/ Commit("refresh_feed")
    \/ Backfill
    \/ \E hash \in QueueHashes : Reprocess(hash)
    \/ \E k \in PostIds, full \in BOOLEAN : RegenerateHash(k, full)
    \/ \E ok \in BOOLEAN : RegenerateSummary(ok)
    \/ \E id \in PostIds : Select("w1", id)
    \/ Claim("w1")
    \/ \E verdict \in {"is_read", "content"} : Examine("w1", verdict)
    \/ \E outcome \in {"success", "keys_cooldown"} : Finish("w1", outcome)


(***************************************************************************)
(* Retention (Scheduler._job_cleanup_retention) and the routes that write   *)
(* the columns it reads.  Time is in days here.  Every DELETE and UPDATE of *)
(* the job is one SQL statement, and the three of them run in one           *)
(* transaction that holds SQLite's write lock: a pass is one step.          *)
(***************************************************************************)
RetPostIds == {1, 2}

FullText == "full"

\* a post as ingest_feed inserts it
FetchedPost(id, t) ==
    [id |-> id, is_read |-> FALSE, read_at |-> NoTime, is_starred |-> FALSE,
     fetched_at |-> t, full_content |-> NULL]

\* variant: the statements of the job have no is_starred condition
Unstarred_any(p) == TRUE

\* (Post.is_starred == False) | (Post.is_starred.is_(None))
Unstarred(p) == p.is_starred # TRUE

\* column < cutoff in SQL: never true of a NULL column
Before(t, cutoff) == t # NoTime /\ t < cutoff

\* 1. posts read more than max_post_age_days ago
ReadExpired(p, t) ==
    p.is_read /\ Before(p.read_at, t - max_post_age_days) /\ Unstarred(p)

\* 2. unread posts fetched more than max_unread_days ago
UnreadExpired(p, t) ==
    ~p.is_read /\ Before(p.fetched_at, t - max_unread_days) /\ Unstarred(p)

\* 3. posts read more than FULL_CONTENT_DAYS ago that have a full_content
FullContentExpired(p, t) ==
    /\ p.is_read /\ Before(p.read_at, t - FULL_CONTENT_DAYS)
    /\ p.full_content # NULL /\ Unstarred(p)

\* one pass of the job: the two DELETEs, the UPDATE, the commit and the log row
cleanup_retention ==
    LET afterRead == {p \in post_rows : ~ReadExpired(p, now)}
        afterUnread == {p \in afterRead : ~UnreadExpired(p, now)}
        cleared == {p \in afterUnread : FullContentExpired(p, now)}
    IN /\ post_rows' = (afterUnread \ cleared) \cup
                          {[p EXCEPT !.full_content = NULL] : p \in cleared}
       /\ cleanup_logs' =
              [executed_at |-> now,
               posts_removed |-> Cardinality(post_rows \ afterRead),
               unread_removed |-> Cardinality(afterRead \ afterUnread),
               full_content_cleared |-> Cardinality(cleared)]
       /\ UNCHANGED <<now, used, doc, runs, report, jobVars>>
       /\ UNCHANGED <<leaderVars, cbVars, ingestVars, summary_queue, queueVars, routeVars>>

\* PATCH /posts/{id}/read
toggle_read(id) ==
    /\ \E p \in post_rows :
          /\ p.id = id
          /\ post_rows' = (post_rows \ {p}) \cup
                 {IF p.is_read
                  THEN [p EXCEPT !.is_read = FALSE, !.read_at = NoTime]
                  ELSE [p EXCEPT !.is_read = TRUE, !.read_at = now]}
    /\ UNCHANGED <<now, cleanup_logs, used, doc, runs, report, jobVars>>
    /\ UNCHANGED <<leaderVars, cbVars, ingestVars, summary_queue, queueVars, routeVars>>

\* PATCH /posts/{id}/star
toggle_star(id) ==
    /\ \E p \in post_rows :
          /\ p.id = id
          /\ post_rows' = (post_rows \ {p}) \cup
                 {[p EXCEPT !.is_starred = ~p.is_starred]}
    /\ UNCHANGED <<now, cleanup_logs, used, doc, runs, report, jobVars>>
    /\ UNCHANGED <<leaderVars, cbVars, ingestVars, summary_queue, queueVars, routeVars>>

\* GET /posts/{id}: the full content is fetched on demand and stored
get_post(id) ==
    /\ \E p \in post_rows :
          /\ p.id = id
          /\ p.full_content = NULL
          /\ post_rows' = (post_rows \ {p}) \cup {[p EXCEPT !.full_content = FullText]}
    /\ UNCHANGED <<now, cleanup_logs, used, doc, runs, report, jobVars>>
    /\ UNCHANGED <<leaderVars, cbVars, ingestVars, summary_queue, queueVars, routeVars>>

RetTick ==
    /\ now + DayStep <= MaxDays
    /\ now' = now + DayStep
    /\ UNCHANGED <<leaderVars, cbVars, ingestVars, summary_queue, queueVars, routeVars, auxVars>>

RetentionNext ==
    \/ RetTick
    \/ cleanup_retention
    \/ \E id \in RetPostIds : toggle_read(id)
    \/ \E id \in RetPostIds : toggle_star(id)
    \/ \E id \in RetPostIds : get_post(id)

(***************************************************************************)
(* The update_feeds job: each pass takes the first FEEDS_PER_PASS rows of   *)
(* the eligible feeds ordered by error_count and ingests them one after     *)
(* the other.  SQL leaves the order of rows with equal error_count open.    *)
(***************************************************************************)
FeedIds == 1..NumFeeds

\* the feeds whose fetch may fail
FlakyFeeds == {1, NumFeeds}

FeedRow == [error_count |-> 0, disabled_at |-> NoTime, next_retry_at |-> NoTime]

\* Feed.disabled_at.is_(None), next_retry_at.is_(None) | next_retry_at <= now
EligibleFeeds(fs, t) ==
    {f \in DOMAIN fs : /\ fs[f].disabled_at = NoTime
                       /\ \/ fs[f].next_retry_at = NoTime
                          \/ fs[f].next_retry_at <= t}

RECURSIVE KSubsets(_, _)
\* the subsets of S that have k elements
KSubsets(S, k) ==
    IF k = 0 THEN {{}}
    ELSE UNION {{T \cup {x} : T \in KSubsets({y \in S : y > x}, k - 1)} : x \in S}

\* order_by(Feed.error_count.asc()).limit(20): the row sets the query may
\* return, given as the eligible feeds it leaves out
LeftOut(fs, t) ==
    LET el == EligibleFeeds(fs, t)
        n == Cardinality(el) - Min(Cardinality(el), FEEDS_PER_PASS)
    IN {out \in KSubsets(el, n) :
           \A x \in out, y \in el \ out : fs[y].error_count <= fs[x].error_count}

\* one pass of _job_update_feeds: the query, then ingest_feed on each row;
\* the fetch of the feeds in failing raises FeedFetchError
update_feeds(out, failing) ==
    /\ out \in LeftOut(feeds, now)
    /\ LET page == EligibleFeeds(feeds, now) \ out
       IN /\ failing \subseteq page
          /\ feeds' = [f \in DOMAIN feeds |->
                          IF f \in failing
                          THEN [feeds[f] EXCEPT !.error_count =
                                                   Min(@ + 1, MaxErrorCount)]
                          ELSE IF f \in page
                               THEN [feeds[f] EXCEPT !.error_count = 0]
                               ELSE feeds[f]]
          /\ picked' = picked \cup page
    /\ pass_no' = (pass_no + 1) % 2
    /\ UNCHANGED <<sug_posts, batch, used, doc, runs, report, retentionVars>>
    /\ UNCHANGED <<now, leaderVars, cbVars, ingestVars, summary_queue, queueVars,
                   routeVars>>

\* POST /api/feeds/{id}/enable: resets the error state of the feed
enable_feed(f) ==
    /\ feeds[f].error_count > 0
    /\ feeds' = [feeds EXCEPT ![f] = [@ EXCEPT !.error_count = 0,
                                              !.disabled_at = NoTime,
                                              !.next_retry_at = NoTime]]
    /\ UNCHANGED <<picked, pass_no, sug_posts, batch, used, doc, runs, report,
                   retentionVars>>
    /\ UNCHANGED <<now, leaderVars, cbVars, ingestVars, summary_queue, queueVars,
                   routeVars>>

UpdatePass ==
    \E out \in KSubsets(FeedIds, NumFeeds - Min(NumFeeds, FEEDS_PER_PASS)),
       failing \in SUBSET FlakyFeeds :
        update_feeds(out, failing)

UpdateNext ==
    \/ UpdatePass
    \/ \E f \in FlakyFeeds : enable_feed(f)

(***************************************************************************)
(* The suggestion engine: process_suggestion_candidates sends the batch of  *)
(* candidates to the LLM and marks the matches the answer names.            *)
(***************************************************************************)
SugIds == 1..NumSugPosts

\* the ids an answer of the LLM may name: those of the posts, and one of no post
MatchIds == 1..(NumSugPosts + 1)

Scores == {SUGGESTION_MIN_SCORE - 1, SUGGESTION_MIN_SCORE}

\* the window of the candidates, in seconds
CandidateWindow == CANDIDATE_WINDOW_HOURS * 3600

\* a posts row: overlap is the number of its tags that the profile has too
SugPosts ==
    [is_read : BOOLEAN, is_liked : BOOLEAN, is_suggested : {FALSE},
     suggestion_score : {0}, suggested_at : {NoTime},
     has_summary : BOOLEAN, overlap : {MIN_TAG_OVERLAP - 1, MIN_TAG_OVERLAP},
     fetched_at : {0, 2 * CandidateWindow}]

\* get_suggestion_candidates before the cap: the ids of the recent, summarised,
\* unread, not liked, not yet suggested posts with enough tags in common
Overlapping(ps, t) ==
    {k \in DOMAIN ps : /\ ps[k].has_summary
                       /\ ps[k].fetched_at > t - CandidateWindow
                       /\ ~ps[k].is_suggested
                       /\ ~ps[k].is_read
                       /\ ~ps[k].is_liked
                       /\ ps[k].overlap >= MIN_TAG_OVERLAP}

\* candidates[:MAX_CANDIDATES_PER_BATCH] after the sort by overlap: the
\* batches the cut may leave
Candidates(ps, t) ==
    LET all == Overlapping(ps, t)
        n == Cardinality(all) - Min(Cardinality(all), MAX_CANDIDATES_PER_BATCH)
    IN {all \ out : out \in {o \in KSubsets(all, n) :
                                 \A x \in o, y \in all \ o :
                                     ps[x].overlap <= ps[y].overlap}}

\* process_suggestion_candidates up to the POST of the comparison request
SuggestStart(cands) ==
    /\ batch = NoBatch
    /\ cands # {}
    /\ cands \in Candidates(sug_posts, now)
    /\ batch' = cands
    /\ UNCHANGED <<feeds, picked, pass_no, sug_posts, used, doc, runs, report,
                   retentionVars>>
    /\ UNCHANGED <<now, leaderVars, cbVars, ingestVars, summary_queue, queueVars,
                   routeVars>>

\* the request fails (429, a status of 400 or more, no choices, no JSON)
SuggestFailed ==
    /\ batch # NoBatch
    /\ batch' = NoBatch
    /\ UNCHANGED <<feeds, picked, pass_no, sug_posts, used, doc, runs, report,
                   retentionVars>>
    /\ UNCHANGED <<now, leaderVars, cbVars, ingestVars, summary_queue, queueVars,
                   routeVars>>

\* the loop over result["matches"]: the post of each id with a score of 80
\* or more is marked unless it is suggested already
Marked(ps, matches, t) ==
    [k \in DOMAIN ps |->
        IF /\ k \in DOMAIN matches
           /\ matches[k] >= SUGGESTION_MIN_SCORE
           /\ ~ps[k].is_suggested
        THEN [ps[k] EXCEPT !.is_suggested = TRUE,
                           !.suggestion_score = matches[k],
                           !.suggested_at = t]
        ELSE ps[k]]

\* the answer arrives: matches gives the score of each id the answer names
SuggestResponse(matches) ==
    /\ batch # NoBatch
    /\ sug_posts' = Marked(sug_posts, matches, now)
    /\ batch' = NoBatch
    /\ UNCHANGED <<feeds, picked, pass_no, used, doc, runs, report, retentionVars>>
    /\ UNCHANGED <<now, leaderVars, cbVars, ingestVars, summary_queue, queueVars,
                   routeVars>>

SuggestNext ==
    \/ \E cands \in SUBSET SugIds : SuggestStart(cands)
    \/ SuggestFailed
    \/ \E ids \in SUBSET MatchIds : \E matches \in [ids -> Scores] :
          SuggestResponse(matches)

(***************************************************************************)
(* Specifications                                                          *)
(***************************************************************************)
LeaderInit ==
    /\ now = 0
    /\ lock \in {NoRow, LeftoverRow}
    /\ is_leader = [i \in Instances |-> FALSE]
    /\ running = [i \in Instances |-> FALSE]
    /\ tasks = [i \in Instances |-> {}]
    /\ executing = [i \in Instances |-> "none"]
    /\ ipc = [i \in Instances |-> "new"]
    /\ acq = [i \in Instances |-> NoAcq]
    /\ wake = [i \in Instances |-> 0]
    /\ lostLock = {}
    /\ killedAt = -1
    /\ CbParked
    /\ IngestParked
    /\ summary_queue = {}
    /\ QueueParked
    /\ RoutesParked
    /\ AuxParked

CbInit ==
    /\ now = 0
    /\ CbParked
    /\ LeaderParked
    /\ IngestParked
    /\ summary_queue = {}
    /\ QueueParked
    /\ RoutesParked
    /\ AuxParked

IngestInit ==
    /\ now = 0
    /\ posts = <<>>
    /\ feed \in {NewFeed(allow) : allow \in BOOLEAN}
    /\ summary_queue = {}
    /\ wlock = NoHolder
    /\ ing = [i \in Ingestors |-> IdleIngest]
    /\ processed = 0
    /\ rejected = {}
    /\ LeaderParked
    /\ CbParked
    /\ QueueParked
    /\ RoutesParked
    /\ AuxParked

QueueInit ==
    /\ now = 0
    /\ summary_queue \in {{QueueRow(1, H1, 0, att), QueueRow(2, hash, prio, 0)} :
                            att \in {0, MAX_ATTEMPTS - 1}, hash \in {H1, H2},
                            prio \in {0, 10}}
    /\ QueueParked
    /\ RoutesParked
    /\ AuxParked
    /\ LeaderParked
    /\ CbParked
    /\ IngestParked

SpecLeader == LeaderInit /\ [][LeaderNext]_vars

\* the clock advances and every live heartbeat loop keeps being scheduled
SpecLeaderFair ==
    /\ SpecLeader
    /\ WF_vars(Tick)
    /\ \A i \in Instances : WF_vars(LoopStep(i))

SpecCB == CbInit /\ [][CbNext]_vars

SpecIngest == IngestInit /\ [][IngestNext]_vars

RestartInit ==
    /\ now = 0
    /\ summary_queue = {}
    /\ QueueParked
    /\ RoutesParked
    /\ AuxParked
    /\ LeaderParked
    /\ IngestParked
    /\ CbParked

SpecRestart == RestartInit /\ [][RestartNext]_vars

UpdateInit ==
    /\ now = 0
    /\ summary_queue = {}
    /\ feeds = [f \in FeedIds |-> FeedRow]
    /\ picked = {}
    /\ pass_no = 0
    /\ sug_posts = <<>>
    /\ batch = NoBatch
    /\ used = <<>>
    /\ doc = <<>>
    /\ runs = 0
    /\ report = NoReport
    /\ RetentionParked
    /\ QueueParked
    /\ RoutesParked
    /\ LeaderParked
    /\ IngestParked
    /\ CbParked

\* the job loop of the leader runs one pass after the other
SpecUpdateFair == UpdateInit /\ [][UpdateNext]_vars /\ WF_vars(UpdatePass)

SuggestInit ==
    /\ now = 2 * CandidateWindow
    /\ summary_queue = {}
    /\ sug_posts \in [SugIds -> SugPosts]
    /\ batch = NoBatch
    /\ feeds = <<>>
    /\ picked = {}
    /\ pass_no = 0
    /\ used = <<>>
    /\ doc = <<>>
    /\ runs = 0
    /\ report = NoReport
    /\ RetentionParked
    /\ QueueParked
    /\ RoutesParked
    /\ LeaderParked
    /\ IngestParked
    /\ CbParked

SpecSuggest == SuggestInit /\ [][SuggestNext]_vars

SpecQueue == QueueInit /\ [][QueueNext]_vars

GateInit ==
    /\ now = 0
    /\ summary_queue = {QueueRow(1, H1, 0, 0), QueueRow(2, H2, 0, 0)}
    /\ QueueParked
    /\ RoutesParked
    /\ AuxParked
    /\ LeaderParked
    /\ IngestParked
    /\ CbParked

SpecGate == GateInit /\ [][GateNext]_vars

LockInit ==
    /\ now = FarNow
    /\ summary_queue \in {{QueueRow(1, H1, 0, att)} : att \in {0, MAX_ATTEMPTS - 1}}
    /\ QueueParked
    /\ RoutesParked
    /\ AuxParked
    /\ LeaderParked
    /\ CbParked
    /\ IngestParked

\* time passes whatever the workers do
SpecLockFair == LockInit /\ [][LockNext]_vars /\ WF_vars(Elapsing)

RequeueInit ==
    /\ now = 0
    /\ summary_queue = {}
    /\ IngestParked
    /\ QueueParked
    /\ RoutesParked
    /\ AuxParked
    /\ LeaderParked
    /\ CbParked

SpecRequeue == RequeueInit /\ [][RequeueNext]_vars

\* the index is the one _load_state read from app_settings
RotatorInit ==
    /\ now = 0
    /\ rot \in {[index |-> i, cooldowns |-> [k \in RotKeyIndexes |-> NoTime]] :
                   i \in RotKeyIndexes}
    /\ used = NoneUsed
    /\ doc = <<>>
    /\ runs = 0
    /\ report = NoReport
    /\ RetentionParked
    /\ cb = ClosedBreaker
    /\ cbSaved = NotSaved
    /\ cpc = [c \in Callers |-> "idle"]
    /\ ckey = [c \in Callers |-> 0]
    /\ result = "none"
    /\ consec = 0
    /\ halfSucc = 0
    /\ sent = NoTime
    /\ summary_queue = {}
    /\ JobsParked
    /\ LeaderParked
    /\ IngestParked
    /\ QueueParked
    /\ RoutesParked

SpecRotator == RotatorInit /\ [][RotatorNext]_vars

DocInit ==
    /\ now = 0
    /\ posts = <<>>
    /\ feed \in {NewFeed(allow) : allow \in BOOLEAN}
    /\ wlock = NoHolder
    /\ ing = [i \in Ingestors |-> IdleIngest]
    /\ processed = 0
    /\ rejected = {}
    /\ summary_queue = {}
    /\ doc \in SeqsUpTo(DocEntries, MaxDocLen)
    /\ runs = 0
    /\ report = NoReport
    /\ used = <<>>
    /\ RetentionParked
    /\ JobsParked
    /\ QueueParked
    /\ RoutesParked
    /\ LeaderParked
    /\ CbParked

SpecDoc == DocInit /\ [][DocNext]_vars

\* the posts of an ingestion at day 0
RetentionInit ==
    /\ now = 0
    /\ post_rows = {FetchedPost(id, 0) : id \in RetPostIds}
    /\ cleanup_logs = NoLog
    /\ used = <<>>
    /\ doc = <<>>
    /\ runs = 0
    /\ report = NoReport
    /\ summary_queue = {}
    /\ JobsParked
    /\ IngestParked
    /\ QueueParked
    /\ RoutesParked
    /\ LeaderParked
    /\ CbParked

SpecRetention == RetentionInit /\ [][RetentionNext]_vars

\* what the worker may have done with the queue row of a post
Fates == {"queued", "summarised", "failed", "read"}

\* the two posts of an ingested document and their read flags; each post
\* still has its queue row, or the worker removed it: with a summary, with a
\* permanent failure, or because the post was read
BackfillInit ==
    /\ now = 0
    /\ posts = <<[guid |-> "g1", normalized_url |-> "http://a/y",
                  content_hash |-> compute_content_hash("c1", "http://a/y")],
                 [guid |-> NULL, normalized_url |-> "http://a/x",
                  content_hash |-> compute_content_hash("c1", "http://a/x")]>>
    /\ \E fate \in [RetPostIds -> Fates] :
          /\ summary_queue =
                 {NewQueueRow(k, k, posts[k].content_hash, 0, 0) :
                     k \in {j \in RetPostIds : fate[j] = "queued"}}
          /\ ai_summaries =
                 {posts[k].content_hash : k \in {j \in RetPostIds : fate[j] = "summarised"}}
          /\ summary_failures =
                 {posts[k].content_hash : k \in {j \in RetPostIds : fate[j] = "failed"}}
          /\ post_rows =
                 {[FetchedPost(k, 0) EXCEPT !.is_read = (fate[k] = "read"),
                                            !.read_at = IF fate[k] = "read" THEN 0 ELSE NoTime] :
                     k \in RetPostIds}
    /\ feed = NewFeed(FALSE)
    /\ wlock = NoHolder
    /\ ing = [i \in Ingestors |-> IdleIngest]
    /\ processed = 0
    /\ rejected = {}
    /\ wk = [w \in Workers |-> IdleWorker]
    /\ calls = 0
    /\ res = [w \in Workers |-> "none"]
    /\ race = FALSE
    /\ cleanup_logs = NoLog
    /\ used = <<>>
    /\ doc = <<>>
    /\ runs = 0
    /\ report = NoReport
    /\ JobsParked
    /\ RoutesParked
    /\ LeaderParked
    /\ CbParked

\* the sweep, the route that marks posts read, and the routes that requeue
BackfillNext ==
    \/ Backfill
    \/ \E id \in RetPostIds : toggle_read(id)
    \/ \E hash \in QueueHashes : Reprocess(hash)
    \/ \E k \in RetPostIds, full \in BOOLEAN : RegenerateHash(k, full)
    \/ \E ok \in BOOLEAN : RegenerateSummary(ok)

SpecBackfill == BackfillInit /\ [][BackfillNext]_vars

(***************************************************************************)
(* Circuit breaker: properties                                             *)
(***************************************************************************)
RecordsFailure == \E c \in Callers, resp \in FailureResponses : GenResponse(c, resp)

RecordsSuccess == \E c \in Callers : GenResponse(c, "200")

\* OPEN and less than recovery_timeout seconds since the last failure
OpenAndWaiting ==
    /\ cb.state = "open"
    /\ cb.last_failure # NoTime
    /\ now - cb.last_failure < recovery_timeout_seconds

\* the failure that completes failure_threshold consecutive failures leaves
\* the breaker OPEN
TripsAtThreshold ==
    [][(RecordsFailure /\ consec' >= failure_threshold) => cb'.state = "open"]_vars

\* C5 as stated: after failure_threshold consecutive failures the breaker is
\* OPEN, and every generate_summary call made while it is OPEN and the
\* recovery timeout has not elapsed raises a temporary error and sends nothing
\* upstream.
C5_CircuitTrip_Original ==
    /\ TripsAtThreshold
    /\ [][\A c \in Callers, g \in BOOLEAN :
            (OpenAndWaiting /\ GenStart(c, g))
                => (IsTemporary(result') /\ cpc'[c] = "idle")]_vars

\* C5 amended: as above, but a call whose content is_garbage_content returns
\* the empty result instead of raising; no call sends a request upstream.
C5_CircuitTrip ==
    /\ TripsAtThreshold
    /\ [][\A c \in Callers, g \in BOOLEAN :
            (OpenAndWaiting /\ GenStart(c, g))
                => /\ cpc'[c] = "idle"
                   /\ g => result' = "empty"
                   /\ ~g => result' = "temporary:circuit"]_vars

\* C5 witness: a non-garbage call was refused while the breaker is OPEN after
\* failure_threshold consecutive failures
C5_Witness ==
    /\ OpenAndWaiting
    /\ consec = failure_threshold
    /\ cb.failures >= failure_threshold
    /\ result = "temporary:circuit"

\* C6 as stated: while OPEN, can_call denies before recovery_timeout has
\* elapsed since last_failure, and at or after that time it moves the breaker
\* to HALF with half_successes = 0 and admits the call.
C6_OpenToHalf_Original ==
    (cb.state = "open" /\ cb.last_failure # NoTime) =>
        LET cc == CanCall(cb, now)
        IN IF now - cb.last_failure < recovery_timeout_seconds
           THEN ~cc.ok /\ cc.cb = cb
           ELSE cc.ok /\ cc.cb.state = "half" /\ cc.cb.half_successes = 0

\* C6 amended: at or after that time can_call moves the breaker to HALF,
\* resets half_successes and admits the call unless less than the minimum
\* inter-call interval has passed since last_call, in which case it denies
\* and the breaker stays OPEN.
C6_OpenToHalf ==
    (cb.state = "open" /\ cb.last_failure # NoTime) =>
        LET cc == CanCall(cb, now)
        IN IF now - cb.last_failure < recovery_timeout_seconds
              \/ UnderMinInterval(cb, now)
           THEN ~cc.ok /\ cc.cb = cb
           ELSE cc.ok /\ cc.cb.state = "half" /\ cc.cb.half_successes = 0

\* C6 witness: can_call has just moved the breaker to HALF after a HALF phase
\* that had counted a success
C6_Witness ==
    /\ cb.state = "half"
    /\ cb.half_successes = 0
    /\ halfSucc = 0
    /\ now - cb.last_failure >= recovery_timeout_seconds
    /\ ~UnderMinInterval(cb, now)

\* C7: a breaker in HALF becomes CLOSED exactly in the step that records the
\* half_open_max_requests-th success since HALF was entered, and its failure
\* count is then 0; a success that leaves the count lower keeps it HALF.
C7_HalfToClosed ==
    [][cb.state = "half" =>
          /\ cb'.state = "closed"
                <=> (RecordsSuccess /\ halfSucc' = half_open_max_requests)
          /\ cb'.state = "closed" => cb'.failures = 0
          /\ (RecordsSuccess /\ halfSucc' < half_open_max_requests)
                => cb'.state = "half"]_vars

\* C7 witness: the breaker closed on the last of the required successes
C7_Witness ==
    /\ cb.state = "closed"
    /\ halfSucc = half_open_max_requests
    /\ cb.failures = 0
    /\ cb.last_failure # NoTime

\* C8: a failure recorded while HALF moves the breaker to OPEN in that step,
\* whatever failures and half_successes are, and can_call then denies until
\* recovery_timeout has elapsed since that failure.
C8_HalfToOpen ==
    /\ [][(cb.state = "half" /\ RecordsFailure)
            => (cb'.state = "open" /\ cb'.last_failure = now)]_vars
    /\ [](OpenAndWaiting => ~CanCall(cb, now).ok)

\* C8 witness: OPEN again after a failure in HALF, with a failure count below
\* the threshold and a half-open success already counted
C8_Witness ==
    /\ OpenAndWaiting
    /\ cb.failures < failure_threshold
    /\ cb.half_successes > 0

\* C38: the circuit leaves OPEN only through can_call after the recovery
\* timeout: a success or a failure recorded while it is OPEN leaves it OPEN,
\* and a step that ends OPEN is can_call's move to HALF, recovery_timeout or
\* more after the last failure
C38_OpenLeftByCanCallOnly ==
    [][cb.state = "open" =>
          /\ (RecordsSuccess \/ RecordsFailure) => cb'.state = "open"
          /\ cb'.state # "open" =>
                 /\ cb'.state = "half"
                 /\ cb' = CanCall(cb, now).cb
                 /\ cb.last_failure # NoTime
                 /\ now - cb.last_failure >= recovery_timeout_seconds]_vars

\* the success of a call admitted before the trip was recorded while OPEN: it
\* cleared the failure count and left the circuit OPEN
C38_Witness ==
    /\ cb.state = "open"
    /\ cb.failures = 0
    /\ result = "ok"

\* C19: whatever the circuit state and whoever the callers, a request goes
\* upstream at least 60 / cerebras_max_rpm seconds after the previous one,
\* also when the previous one is still in flight or was answered with 429.
C19_MinCallSpacing ==
    [][\A c \in Callers :
          (GenStart(c, FALSE) /\ cpc'[c] = "inflight" /\ sent # NoTime) =>
              (now - sent) * cerebras_max_rpm >= 60]_vars

C21_RotatorFairness ==
    \A k \in DOMAIN used :
        \/ used[k] = Burst(used) \div RotKeys
        \/ used[k] = (Burst(used) + RotKeys - 1) \div RotKeys

\* a burst of MaxBurst calls that did not start at the first key and is not
\* a whole number of rounds
C21_Witness ==
    /\ DOMAIN used = RotKeyIndexes
    /\ Burst(used) = MaxBurst
    /\ used[0] < used[RotKeys - 1]

\* C34: after a restart of the service the circuit breaker of the process is
\* CLOSED with failure count 0 and no last_failure, whatever state the
\* settings table held before the restart
C34_FreshAfterRestart ==
    [][Restart => /\ cb'.state = "closed"
                  /\ cb'.failures = 0
                  /\ cb'.last_failure = NoTime]_vars

(***************************************************************************)
(* Scheduler: properties                                                   *)
(***************************************************************************)
Active(i) == ipc[i] \in {"sleeping", "acquiring"}

\* C1: while the lock row's heartbeat is fresh (not older than LOCK_TIMEOUT),
\* at most one running instance has is_leader = TRUE.
C1_LeaderSafety ==
    (lock.exists /\ ~LockExpired(lock, now))
        => Cardinality({i \in Instances : Active(i) /\ is_leader[i]}) <= 1

\* C2: an instance that is executing an iteration of a background job is the
\* holder named in the lock row.
C2_JobsOnlyOnHolder ==
    \A i \in Instances :
        executing[i] # "none" => (lock.exists /\ lock.locked_by = i)

LeaderKilled == \E d \in Instances : ipc[d] = "dead" /\ is_leader[d]

IsLeaderWithJobs(f) ==
    /\ Active(f)
    /\ is_leader[f]
    /\ tasks[f] = Jobs
    /\ lock.exists /\ lock.locked_by = f

\* the acquisition attempt of f read the row of the killed holder after it expired
ReadExpiredDeadRow(f) ==
    /\ ipc[f] = "acquiring"
    /\ acq[f].seen.exists
    /\ LockExpired(acq[f].seen, acq[f].now)
    /\ \E d \in Instances : ipc[d] = "dead" /\ lock.exists /\ lock.locked_by = d

\* C9: once the leader is killed, a follower that keeps running eventually is
\* leader with its job set started; and the follower's acquisition attempt
\* that reads the dead holder's row after it expired makes it leader and
\* starts its jobs in that step.
C9_LeaderTakeover ==
    /\ \A f \in Instances :
          (LeaderKilled /\ Active(f) /\ running[f])
              ~> (~running[f] \/ IsLeaderWithJobs(f))
    /\ [][\A f \in Instances :
            (ReadExpiredDeadRow(f) /\ TryAcquireWrite(f))
                => (is_leader'[f] /\ tasks'[f] = Jobs /\ lock'.locked_by = f)]_vars

\* C9 witness: the follower holds the row it acquired after the kill
C9_Witness ==
    \E f \in Instances :
        /\ LeaderKilled
        /\ IsLeaderWithJobs(f)
        /\ killedAt >= 0
        /\ lock.locked_at > killedAt + LOCK_TIMEOUT - TickStep

\* C10: is_leader goes from TRUE to FALSE exactly in the step in which the
\* instance's heartbeat UPDATE matches no row, and that step cancels its
\* job tasks and empties its task list.
C10_DemotionOnLostHeartbeat ==
    [][\A i \in Instances :
          /\ (is_leader[i] /\ ~is_leader'[i])
                <=> (UpdateHeartbeat(i) /\ HeartbeatRows(lock, i) = 0)
          /\ (is_leader[i] /\ ~is_leader'[i])
                => (tasks'[i] = {} /\ executing'[i] = "none")]_vars

\* C10 witness: an instance that had jobs started has lost the lock
C10_Witness ==
    \E i \in Instances :
        /\ i \in lostLock
        /\ ~is_leader[i]
        /\ tasks[i] = {}
        /\ lock.exists /\ lock.locked_by # i

\* C11: an acquisition attempt by an instance that is not the holder named in
\* the lock row does not modify the row while the row's heartbeat_at is within
\* LOCK_TIMEOUT of now: the row is unchanged and the instance is a follower
\* after the attempt.
C11_FreshRowUntouched ==
    [][\A i \in Instances :
          ( /\ TryAcquireWrite(i)
            /\ lock.exists
            /\ lock.locked_by # i
            /\ ~LockExpired(lock, now) )
              => (lock' = lock /\ ~is_leader'[i])]_vars

\* C30: stop() deletes the lock row only if the row names the stopping
\* instance as holder; a row held by another instance is left as it is.
C30_StopLeavesForeignLock ==
    [][\A i \in Instances :
          (Stop(i) /\ lock # NoRow /\ lock.locked_by # i) => lock' = lock]_vars

\* an instance that still took itself for the leader has stopped, and the
\* row of the instance that took over in the meantime is in place
C30_Witness ==
    \E i \in Instances :
       /\ ipc[i] = "stopped"
       /\ is_leader[i]
       /\ lock # NoRow
       /\ lock.locked_by # i

(***************************************************************************)
(* Feed ingestion: properties                                              *)
(***************************************************************************)
\* C4: per-feed uniqueness of the committed posts, in every reachable state
\* and whatever the interleaving of the ingestions of the feed: no two posts
\* share a non-null guid; no two share a non-null normalized_url unless the
\* feed has allow_duplicate_urls; no two posts that both have a null guid and
\* a null normalized_url share a content hash (a post without a content hash
\* shares none)
C4_PerFeedUniqueness ==
    \A k, m \in DOMAIN posts :
        k # m =>
            /\ posts[k].guid # NULL => posts[m].guid # posts[k].guid
            /\ (~feed.allow_duplicate_urls /\ posts[k].normalized_url # NULL)
                   => posts[m].normalized_url # posts[k].normalized_url
            /\ ( /\ posts[k].guid = NULL /\ posts[k].normalized_url = NULL
                 /\ posts[m].guid = NULL /\ posts[m].normalized_url = NULL
                 /\ posts[k].content_hash # NoHash )
                   => posts[m].content_hash # posts[k].content_hash

\* two ingestions raced on one guid: the index refused the later INSERT and
\* the feed holds posts committed by the earlier one
C4_Witness ==
    /\ "idx_posts_guid" \in rejected
    /\ Len(posts) >= 2
    /\ \E k \in DOMAIN posts : posts[k].guid # NULL

\* the entry has the guid of a post the session of ingestor i sees, and both
\* have a normalized URL, and the two differ
GuidCollision(i, entry) ==
    /\ entry.guid # NULL
    /\ normalize_url(entry.url) # NULL
    /\ \E k \in DOMAIN Visible(i) :
           /\ Visible(i)[k].guid = entry.guid
           /\ Visible(i)[k].normalized_url \notin {NULL, normalize_url(entry.url)}

C27_FetchFailure ==
    [][\A i \in Ingestors :
          IngestStart(i, FALSE) =>
             /\ feed' = [feed EXCEPT !.error_count = @ + 1,
                                     !.last_error = FetchError,
                                     !.last_error_at = now]
             /\ posts' = posts
             /\ summary_queue' = summary_queue]_vars

\* C33: ingest_feed commits its new posts, their queue entries and the feed
\* bookkeeping in one transaction.  An ingestion that ends has either added
\* all the posts it inserted, with one priority-0 queue entry for each of them
\* that has a content hash and none for the others, and stamped the feed, or
\* it has changed neither posts nor summary_queue nor the feed; no other step
\* changes posts or summary_queue; and in every committed state a post has a
\* queue entry exactly when it has a content hash
C33_IngestAtomic ==
    /\ [](\A k \in DOMAIN posts :
             LET rows == {r \in summary_queue : r.post_id = k}
             IN IF posts[k].content_hash = NoHash
                THEN rows = {}
                ELSE /\ Cardinality(rows) = 1
                     /\ \A r \in rows : /\ r.priority = 0
                                        /\ r.content_hash = posts[k].content_hash)
    /\ [][/\ (posts' # posts \/ summary_queue' # summary_queue) =>
               \E i \in Ingestors : ing[i].pc = "loop" /\ ing'[i].pc = "idle"
          /\ \A i \in Ingestors :
               (ing[i].pc = "loop" /\ ing'[i].pc = "idle") =>
                   \/ /\ posts' = posts \o ing[i].pending
                      /\ Cardinality(summary_queue' \ summary_queue) =
                             Cardinality({k \in DOMAIN ing[i].pending :
                                 ing[i].pending[k].content_hash # NoHash})
                      /\ summary_queue \subseteq summary_queue'
                      /\ feed'.last_fetched_at = now
                   \/ /\ posts' = posts
                      /\ summary_queue' = summary_queue
                      /\ feed' = feed]_vars

\* one ingestion committed a post with a hash and one without, the first of
\* them queued, and another ingestion was rolled back as a whole
C33_Witness ==
    /\ \E k, m \in DOMAIN posts : /\ posts[k].content_hash = NoHash
                                  /\ posts[m].content_hash # NoHash
                                  /\ \E r \in summary_queue : r.post_id = m
    /\ rejected # {}
    /\ \A i \in Ingestors : ing[i].pc = "idle"

\* C22: ingesting a document again right after an ingestion of it that
\* succeeded inserts no post and no queue entry and reports new_posts = 0 and
\* skipped_duplicates = the number of entries of the document.
C22_ReingestIdempotent ==
    [][(IngestDocument /\ runs >= 1 /\ report.fetched /\ report.errors = 0) =>
          /\ posts' = posts
          /\ summary_queue' = summary_queue
          /\ report'.new_posts = 0
          /\ report'.skipped_duplicates = Len(doc)]_vars

\* C24: a document of three entries with one guid and pairwise different
\* normalized URLs, ingested into a feed with no post of that guid, leaves the
\* feed with guid_collision_count = GUID_COLLISION_LIMIT and guid_unreliable.
C24_ThreeCollisions ==
    [][(/\ IngestDocument
        /\ Len(doc) = 3
        /\ doc[1].guid # NULL
        /\ \A k \in 1..3 : doc[k].guid = doc[1].guid /\ normalize_url(doc[k].url) # NULL
        /\ \A j, k \in 1..3 :
              j # k => normalize_url(doc[j].url) # normalize_url(doc[k].url)
        /\ \A k \in DOMAIN posts : posts[k].guid # doc[1].guid) =>
            /\ feed'.guid_collision_count = GUID_COLLISION_LIMIT
            /\ feed'.guid_unreliable]_vars

\* C25: in a feed with guid_unreliable, an entry with the guid of an existing
\* post and a normalized URL that no post of the feed and no other entry of the
\* document has is inserted as a new post by an ingestion that hits no error.
C25_UnreliableInserts ==
    [][(IngestDocument /\ feed.guid_unreliable /\ report'.errors = 0) =>
          \A e \in DOMAIN doc :
             (/\ doc[e].guid # NULL
              /\ \E k \in DOMAIN posts : posts[k].guid = doc[e].guid
              /\ normalize_url(doc[e].url) # NULL
              /\ \A k \in DOMAIN posts :
                    posts[k].normalized_url # normalize_url(doc[e].url)
              /\ \A j \in DOMAIN doc :
                    j # e => normalize_url(doc[j].url) # normalize_url(doc[e].url)) =>
                 \E k \in DOMAIN posts' :
                    /\ k > Len(posts)
                    /\ posts'[k].normalized_url = normalize_url(doc[e].url)]_vars

\* C26: in a feed with allow_duplicate_urls, an entry that is no guid
\* duplicate (it has no guid, or one of no post and of no other entry) and whose
\* normalized URL is that of an existing post is inserted as a new post, and
\* the ingestion hits no error.
C26_DuplicateUrlInserts ==
    [][(IngestDocument /\ feed.allow_duplicate_urls) =>
          \A e \in DOMAIN doc :
             (/\ \/ doc[e].guid = NULL
                 \/ /\ \A k \in DOMAIN posts : posts[k].guid # doc[e].guid
                    /\ \A j \in DOMAIN doc : j # e => doc[j].guid # doc[e].guid
              /\ normalize_url(doc[e].url) # NULL
              /\ \E k \in DOMAIN posts :
                    posts[k].normalized_url = normalize_url(doc[e].url)) =>
                 /\ report'.errors = 0
                 /\ \E k \in DOMAIN posts' :
                       /\ k > Len(posts)
                       /\ posts'[k].normalized_url = normalize_url(doc[e].url)]_vars

\* C28: no pass of cleanup_retention deletes a starred post or changes any
\* of its columns (full_content among them), whatever its read state, read_at
\* and fetched_at.
C28_StarredInviolable ==
    [][cleanup_retention =>
          \A p \in post_rows : p.is_starred = TRUE => p \in post_rows']_vars

\* a pass has just deleted a post and left a starred one that was read more
\* than max_post_age_days ago and has its full_content
C28_Witness ==
    /\ cleanup_logs.executed_at = now
    /\ cleanup_logs.posts_removed + cleanup_logs.unread_removed > 0
    /\ \E p \in post_rows :
          /\ p.is_starred = TRUE
          /\ p.is_read /\ Before(p.read_at, now - max_post_age_days)
          /\ p.full_content # NULL

\* C29: a backfill sweep adds a queue entry of priority -1 for each unread
\* post that has a content hash, no queue entry and no AI summary (the posts
\* here are fewer than BACKFILL_LIMIT), and adds none for a post that is read,
\* has a queue entry, or has a hash with an AI summary.
C29_BackfillSweep ==
    [][Backfill =>
          \A k \in DOMAIN posts :
             LET wanted == /\ posts[k].content_hash # NoHash
                           /\ ~IsRead(post_rows, k)
                           /\ ~PostIdTaken(summary_queue, k)
                           /\ posts[k].content_hash \notin ai_summaries
                 added == {r \in summary_queue' \ summary_queue : r.post_id = k}
             IN IF wanted
                THEN \E r \in added : r.priority = 0 - 1
                ELSE added = {}]_vars

\* C36: giving up is final: no backfill sweep adds a queue entry for a content
\* hash that the worker has archived in summary_failures
C36_GivingUpIsFinal ==
    [][Backfill =>
          \A r \in summary_queue' \ summary_queue :
              r.content_hash \notin summary_failures]_vars

\* C39: process_suggestion_candidates marks as suggested only posts of the
\* candidate batch it sent to the LLM: a match id that is not in the batch
\* never makes a post suggested
C39_OnlyBatchSuggested ==
    [][\A k \in SugIds :
          (sug_posts'[k].is_suggested /\ ~sug_posts[k].is_suggested)
              => k \in batch]_vars

\* C35: no eligible feed is starved: every feed is taken by some update_feeds
\* pass eventually, also when more than FEEDS_PER_PASS feeds are eligible and
\* the feeds taken earlier keep succeeding
C35_NoStarvation == \A f \in FeedIds : <>(f \in picked)

(***************************************************************************)
(* Summary queue worker: properties                                        *)
(***************************************************************************)
\* both workers ran the claim UPDATE of a selection they had made of one row
\* while neither UPDATE had run
BothClaimed ==
    /\ race
    /\ \A w \in Workers : res[w] # "none"
    /\ \A w, v \in Workers : wk[w].candidate = wk[v].candidate

\* a worker whose claim UPDATE affected no row is back at the head of its
\* loop, the row untouched by it
ZeroRowsBacksOff == \A w \in Workers : res[w] = "zero" => wk[w].pc = "idle"

\* C3 as stated: when two workers have selected the same ready entry and
\* both have executed the claim UPDATE, exactly one UPDATE affected one row
\* and the other affected none, and the worker with none does not process
C3_QueueClaimRace_Original ==
    /\ BothClaimed => \E w, v \in Workers : res[w] = "one" /\ res[v] = "zero"
    /\ ZeroRowsBacksOff

\* the entry a claim UPDATE of worker w would find held: present, with a
\* locked_at that is not older than the cutoff of w
HeldAgainst(w) ==
    \E r \in summary_queue :
        /\ r.id = wk[w].candidate
        /\ r.locked_at # NoTime
        /\ r.locked_at >= wk[w].now - summary_lock_timeout_seconds

Present(w) == \E r \in summary_queue : r.id = wk[w].candidate

ClaimRowCount ==
    \A w \in Workers :
        Claim(w) =>
            IF Present(w) /\ ~HeldAgainst(w)
            THEN /\ res'[w] = "one"
                 /\ wk'[w].pc = "claimed"
                 /\ \E r \in summary_queue' :
                        r.id = wk[w].candidate /\ r.locked_at = wk[w].now
            ELSE /\ res'[w] = "zero"
                 /\ wk'[w].pc = "idle"
                 /\ summary_queue' = summary_queue

\* C3 (amended): the claim UPDATEs of two workers that selected the same
\* entry run one after the other; each affects one row, setting locked_at to
\* the time the worker read before selecting, exactly if at that moment the
\* entry exists and its locked_at is null or older than that worker's cutoff,
\* and affects no row otherwise; so the later UPDATE affects no row while the
\* earlier claim stands and is not older than the later worker's cutoff.  A
\* worker whose UPDATE affected no row rolls back and does not process the
\* entry.
C3_QueueClaimRace == [][ClaimRowCount]_vars /\ []ZeroRowsBacksOff

\* two workers selected the same entry, both ran the UPDATE, and the later
\* one met the standing claim of the earlier one
C3_Witness ==
    /\ BothClaimed
    /\ \E w, v \in Workers :
           /\ res[w] = "one" /\ res[v] = "zero"
           /\ wk[w].pc \in {"claimed", "calling"}
           /\ wk[v].pc = "idle"

\* the row the ordering (priority DESC, created_at ASC, id ASC) puts first
FirstById(rs) == {r \in FirstRows(rs) : \A o \in FirstRows(rs) : r.id <= o.id}

\* C12: the entry a worker selects, and then claims, is among the entries
\* ready at selection time one of highest priority, among those one of
\* earliest created_at, and among those the one of smallest row id.
C12_QueueOrdering ==
    [][ /\ \A w \in Workers, id \in QueueIds :
              Select(w, id) =>
                  \E r \in FirstById(Ready(summary_queue, now)) : r.id = id
        /\ \A w \in Workers :
              (Claim(w) /\ res'[w] = "one") =>
                  \A r \in summary_queue :
                      r.id # wk[w].candidate => r \in summary_queue' ]_vars

\* C13: a claim UPDATE sets locked_at only on an entry that is ready at that
\* moment (locked_at null or older than the worker's now minus the lease
\* timeout, and cooldown_until null or earlier than that now), whatever another
\* worker did to the entry since this worker selected it.
C13_ClaimOnlyReady ==
    [][\A w \in Workers :
          (Claim(w) /\ res'[w] = "one") =>
              \E r \in Ready(summary_queue, wk[w].now) : r.id = wk[w].candidate]_vars

\* C15: a temporary error other than all-keys-in-cooldown adds one to the
\* attempts of the entry; if that makes five, cooldown_until is set to the
\* worker's now plus 24 h and attempts go back to 0; either way locked_at is
\* cleared, the entry stays queued and no failure is recorded.
C15_TemporaryError ==
    [][\A w \in Workers : \A r \in summary_queue :
          (Finish(w, "temporary") /\ r.id = wk[w].candidate) =>
              /\ summary_failures' = summary_failures
              /\ \E n \in summary_queue' :
                     /\ n.id = r.id
                     /\ n.locked_at = NoTime
                     /\ IF r.attempts + 1 >= MAX_ATTEMPTS
                        THEN /\ n.attempts = 0
                             /\ n.cooldown_until = wk[w].now + COOLDOWN_SECONDS
                        ELSE /\ n.attempts = r.attempts + 1
                             /\ n.cooldown_until = r.cooldown_until]_vars

\* C16: a permanent error adds one to the attempts of the entry; if that
\* makes five, the content hash is recorded in summary_failures and the entry
\* is deleted in the same commit; otherwise locked_at is cleared and the entry
\* is kept.
C16_PermanentError ==
    [][\A w \in Workers : \A r \in summary_queue :
          (Finish(w, "permanent") /\ r.id = wk[w].candidate) =>
              IF r.attempts + 1 >= MAX_ATTEMPTS
              THEN /\ r.content_hash \in summary_failures'
                   /\ \A n \in summary_queue' : n.id # r.id
              ELSE /\ summary_failures' = summary_failures
                   /\ \E n \in summary_queue' :
                          /\ n.id = r.id
                          /\ n.attempts = r.attempts + 1
                          /\ n.locked_at = NoTime]_vars

\* C17: when generate_summary succeeds, the commit that follows leaves a
\* summary of the entry's content hash in ai_summaries and the entry out of
\* the queue, and the step never removes the entry without the summary
\* being there.
C17_SuccessCommit ==
    [][\A w \in Workers : \A r \in summary_queue :
          (Finish(w, "success") /\ r.id = wk[w].candidate) =>
              /\ r.content_hash \in ai_summaries'
              /\ \A n \in summary_queue' : n.id # r.id]_vars

LoadedUnlocked(w) == wk[w].loaded /\ wk[w].locked_at = NoTime

C31_DeniedTickTouchesNothing ==
    [][\A w \in Workers :
          (/\ wk[w].pc = "idle"
           /\ ~CanCall(cb, now).ok \/ ~HasAvailableKey(rot, now)
           /\ TickDenied(w) \/ \E id \in QueueIds : TickSelect(w, id)) =>
              /\ summary_queue' = summary_queue
              /\ wk'[w].pc = "idle"]_vars

\* the worker has just been turned away with a ready entry in the queue
C31_Witness ==
    /\ res["w1"] = "denied"
    /\ wk["w1"].pc = "idle"
    /\ Ready(summary_queue, now) # {}
    /\ cb.state = "open" \/ ~HasAvailableKey(rot, now)

\* C32: when the worker that has claimed an entry finds a summary of the
\* entry's hash, or the post gone, or the post read, it deletes the entry and
\* goes back to the loop head: no content extraction, no call of
\* generate_summary.
C32_SkipWithoutCall ==
    [][\A w \in Workers, verdict \in Verdicts :
          (/\ wk[w].pc = "claimed"
           /\ \E r \in RowsById(summary_queue, wk[w].candidate) :
                 \/ r.content_hash \in ai_summaries
                 \/ verdict \in {"post_missing", "is_read"}
           /\ Examine(w, verdict)) =>
              /\ RowsById(summary_queue', wk[w].candidate) = {}
              /\ summary_queue' \subseteq summary_queue
              /\ calls' = calls
              /\ wk'[w].pc = "idle"]_vars

\* a worker has dropped the entry of a hash that the other worker has
\* summarised: one call of generate_summary for the two entries
C32_Witness ==
    /\ summary_queue = {}
    /\ calls = 1
    /\ H1 \in ai_summaries
    /\ \A w \in Workers : wk[w].pc = "idle" /\ res[w] = "one"
    /\ wk["w1"].candidate # wk["w2"].candidate

\* C37: no claimed queue entry stays locked forever: an entry with locked_at
\* set is eventually deleted or ready again, also when the iteration of its
\* worker ended in the outer exception handler or the worker takes no step
\* any more
C37_NoLockForever ==
    \A id \in QueueIds :
        (\E r \in RowsById(summary_queue, id) : r.locked_at # NoTime)
            ~> (RowsById(summary_queue, id) \subseteq Ready(summary_queue, now))

\* the worker's commit of a summary was refused because the on-demand request
\* had stored one of the same hash; the iteration was rolled back, the entry
\* kept its lock, and the lock has expired
C37_Witness ==
    /\ \A w \in Workers : wk[w].pc = "idle"
    /\ calls > 0
    /\ \E r \in summary_queue : /\ r.locked_at # NoTime
                                /\ r.content_hash \in ai_summaries
                                /\ r \in Ready(summary_queue, now)

\* C40: no queue entry is at the same time locked and in cooldown: in every
\* committed state no entry has locked_at set together with a cooldown_until
\* later than now
C40_NotLockedInCooldown ==
    \A r \in summary_queue :
        ~(r.locked_at # NoTime /\ r.cooldown_until # NoTime /\ r.cooldown_until > now)

(***************************************************************************)
(* Requeueing: properties                                                  *)
(***************************************************************************)
\* C14: whatever the sequence of ingestions, backfill sweeps, reprocess and
\* regenerate requests and worker steps, the summary queue holds at most one
\* entry per post id.
C14_QueueOncePerPost ==
    \A r, o \in summary_queue : r.post_id = o.post_id => r = o

\* the hash of a queued post was regenerated, and the row that a backfill or
\* a reprocess request then tried to add for the post was refused
C14_Witness ==
    /\ "summary_queue.post_id" \in rejected
    /\ \E r \in summary_queue :
           /\ r.post_id \in DOMAIN posts
           /\ posts[r.post_id].content_hash # r.content_hash

====
